---------------------------- MODULE Spec2Model ----------------------------
(***************************************************************************)
(* USBShark firmware: the lock-free ring buffer (ringbuffer.h) and the     *)
(* host framing protocol (comm_protocol.c), modelled as state machines.    *)
(*                                                                         *)
(* The module holds several specifications over one set of variables.     *)
(* Each specification drives one group of variables and leaves the other   *)
(* groups at their idle values:                                            *)
(*   SpecRb    one ring buffer driven by sequential API calls              *)
(*   SpecSpsc  one ring buffer shared by an ISR producer and a main-       *)
(*             context consumer, the consumer split at its statements      *)
(***************************************************************************)
EXTENDS Integers, Sequences, FiniteSets, TLC

(***************************************************************************)
(* Fixed-width integer arithmetic.                                         *)
(***************************************************************************)
RECURSIVE BitAndN(_, _, _)
BitAndN(a, b, n) ==
    IF n = 0 \/ a = 0 \/ b = 0 THEN 0
    ELSE 2 * BitAndN(a \div 2, b \div 2, n - 1) + ((a % 2) * (b % 2))

RECURSIVE BitXorN(_, _, _)
BitXorN(a, b, n) ==
    IF n = 0 THEN 0
    ELSE 2 * BitXorN(a \div 2, b \div 2, n - 1) + (((a % 2) + (b % 2)) % 2)

\* x as the 16-bit two's complement pattern of a C int on the AVR target
U16(x) == x % 65536
U8(x) == x % 256
And16(a, b) == BitAndN(U16(a), U16(b), 16)
Xor16(a, b) == BitXorN(U16(a), U16(b), 16)
Xor8(a, b) == BitXorN(U8(a), U8(b), 8)

Byte == 0 .. 255

(***************************************************************************)
(* ringbuffer.h                                                            *)
(***************************************************************************)
RINGBUF_SIZE == 128
RINGBUF_MASK == RINGBUF_SIZE - 1

\* a ringbuffer_t in static storage before ringbuffer_init: all zero
ringbuffer_t ==
    [buffer |-> [i \in 0 .. RINGBUF_SIZE - 1 |-> 0],
     write_index |-> 0, read_index |-> 0, overflow_count |-> 0]

ringbuffer_init(rb) ==
    [rb EXCEPT !.write_index = 0, !.read_index = 0, !.overflow_count = 0]

ringbuffer_empty(rb) == rb.write_index = rb.read_index

ringbuffer_full(rb) == And16(rb.write_index + 1, RINGBUF_MASK) = rb.read_index

\* mutant: the difference of the indices returned without the mask
ringbuffer_count_nomask(rb) == U8(rb.write_index - rb.read_index)

ringbuffer_count(rb) == U8(And16(rb.write_index - rb.read_index, RINGBUF_MASK))

ringbuffer_free(rb) == U8(RINGBUF_SIZE - ringbuffer_count(rb) - 1)

\* mutant: a full buffer overwrites the oldest unread byte instead of dropping
ringbuffer_push_overwrite(rb, data) ==
    LET next_write == And16(rb.write_index + 1, RINGBUF_MASK) IN
    IF next_write = rb.read_index
    THEN [rb |-> [rb EXCEPT !.buffer[rb.write_index] = data,
                            !.write_index = next_write,
                            !.read_index = And16(rb.read_index + 1, RINGBUF_MASK)],
          ret |-> FALSE]
    ELSE [rb |-> [rb EXCEPT !.buffer[rb.write_index] = data,
                            !.write_index = next_write],
          ret |-> TRUE]

\* the buffer after the call, and the value returned
ringbuffer_push(rb, data) ==
    LET next_write == And16(rb.write_index + 1, RINGBUF_MASK) IN
    IF next_write = rb.read_index
    THEN [rb |-> [rb EXCEPT !.overflow_count = U8(rb.overflow_count + 1)],
          ret |-> FALSE]
    ELSE [rb |-> [rb EXCEPT !.buffer[rb.write_index] = data,
                            !.write_index = next_write],
          ret |-> TRUE]

\* mutant: no empty check, the stale cell under read_index is handed out
ringbuffer_pop_nocheck(rb, data) ==
    [rb |-> [rb EXCEPT !.read_index = And16(rb.read_index + 1, RINGBUF_MASK)],
     ret |-> TRUE,
     data |-> rb.buffer[rb.read_index]]

\* data is the byte *data holds before the call; the result carries it after
ringbuffer_pop(rb, data) ==
    IF rb.read_index = rb.write_index
    THEN [rb |-> rb, ret |-> FALSE, data |-> data]
    ELSE [rb |-> [rb EXCEPT !.read_index = And16(rb.read_index + 1, RINGBUF_MASK)],
          ret |-> TRUE,
          data |-> rb.buffer[rb.read_index]]

ringbuffer_reset(rb) == [rb EXCEPT !.read_index = rb.write_index]

\* The while loops of the _multiple calls run their iterations lo .. hi - 1 in
\* order; the range is halved so that the evaluation stays shallow. s.run is
\* the loop condition's second conjunct: FALSE once a push or pop has failed.
\* data is a sequence of at least len bytes (data[count] is data[count + 1] here)
RECURSIVE push_multiple_loop(_, _, _, _)
push_multiple_loop(s, data, lo, hi) ==
    IF ~s.run \/ lo >= hi THEN s
    ELSE IF hi - lo = 1
    THEN LET p == ringbuffer_push(s.rb, data[lo + 1]) IN
         IF p.ret THEN [rb |-> p.rb, ret |-> lo + 1, run |-> TRUE]
         ELSE [rb |-> p.rb, ret |-> lo, run |-> FALSE]
    ELSE LET mid == (lo + hi) \div 2 IN
         push_multiple_loop(push_multiple_loop(s, data, lo, mid), data, mid, hi)

ringbuffer_push_multiple(rb, data, len) ==
    LET s == push_multiple_loop([rb |-> rb, ret |-> 0, run |-> TRUE], data, 0, len) IN
    [rb |-> s.rb, ret |-> s.ret]

\* s.data is the caller's array as a sequence; cells past the count keep their bytes
RECURSIVE pop_multiple_loop(_, _, _)
pop_multiple_loop(s, lo, hi) ==
    IF ~s.run \/ lo >= hi THEN s
    ELSE IF hi - lo = 1
    THEN LET p == ringbuffer_pop(s.rb, s.data[lo + 1]) IN
         IF p.ret
         THEN [rb |-> p.rb, ret |-> lo + 1, run |-> TRUE,
               data |-> [s.data EXCEPT ![lo + 1] = p.data]]
         ELSE [s EXCEPT !.run = FALSE]
    ELSE LET mid == (lo + hi) \div 2 IN
         pop_multiple_loop(pop_multiple_loop(s, lo, mid), mid, hi)

ringbuffer_pop_multiple(rb, data, len) ==
    LET s == pop_multiple_loop([rb |-> rb, ret |-> 0, run |-> TRUE, data |-> data], 0, len) IN
    [rb |-> s.rb, ret |-> s.ret, data |-> s.data]

\* the unread bytes, oldest first
Unread(rb) ==
    [k \in 1 .. ringbuffer_count(rb) |->
        rb.buffer[And16(rb.read_index + k - 1, RINGBUF_MASK)]]

(***************************************************************************)
(* comm_protocol.h, comm_protocol.c: constants, CRC-16 and byte stuffing   *)
(***************************************************************************)
COMM_SYNC_BYTE == 170
COMM_ESCAPE_BYTE == 85
COMM_MAX_PACKET_SIZE == 255

\* the table of comm_protocol.c lines 40-73; crc16_table[i] of the source is
\* crc16_table[i + 1] here
crc16_table ==
    <<0, 4129, 8258, 12387, 16516, 20645, 24774, 28903,
       33032, 37161, 41290, 45419, 49548, 53677, 57806, 61935,
       4657, 528, 12915, 8786, 21173, 17044, 29431, 25302,
       37689, 33560, 45947, 41818, 54205, 50076, 62463, 58334,
       9314, 13379, 1056, 5121, 25830, 29895, 17572, 21637,
       42346, 46411, 34088, 38153, 58862, 62927, 50604, 54669,
       13907, 9842, 5649, 1584, 30423, 26358, 22165, 18100,
       46939, 42874, 38681, 34616, 63455, 59390, 55197, 51132,
       18628, 22757, 26758, 30887, 2112, 6241, 10242, 14371,
       51660, 55789, 59790, 63919, 35144, 39273, 43274, 47403,
       23285, 19156, 31415, 27286, 6769, 2640, 14899, 10770,
       56317, 52188, 64447, 60318, 39801, 35672, 47931, 43802,
       27814, 31879, 19684, 23749, 11298, 15363, 3168, 7233,
       60846, 64911, 52716, 56781, 44330, 48395, 36200, 40265,
       32407, 28342, 24277, 20212, 15891, 11826, 7761, 3696,
       65439, 61374, 57309, 53244, 48923, 44858, 40793, 36728,
       37256, 33193, 45514, 41451, 53516, 49453, 61774, 57711,
       4224, 161, 12482, 8419, 20484, 16421, 28742, 24679,
       33721, 37784, 41979, 46042, 49981, 54044, 58239, 62302,
       689, 4752, 8947, 13010, 16949, 21012, 25207, 29270,
       46570, 42443, 38312, 34185, 62830, 58703, 54572, 50445,
       13538, 9411, 5280, 1153, 29798, 25671, 21540, 17413,
       42971, 47098, 34713, 38840, 59231, 63358, 50973, 55100,
       9939, 14066, 1681, 5808, 26199, 30326, 17941, 22068,
       55628, 51565, 63758, 59695, 39368, 35305, 47498, 43435,
       22596, 18533, 30726, 26663, 6336, 2273, 14466, 10403,
       52093, 56156, 60223, 64286, 35833, 39896, 43963, 48026,
       19061, 23124, 27191, 31254, 2801, 6864, 10931, 14994,
       64814, 60687, 56684, 52557, 48554, 44427, 40424, 36297,
       31782, 27655, 23652, 19525, 15522, 11395, 7392, 3265,
       61215, 65342, 53085, 57212, 44955, 49082, 36825, 40952,
       28183, 32310, 20053, 24180, 11923, 16050, 3793, 7920>>

\* one iteration of the loops of lines 308-310 and 323-325
crc_step(crc, byte) ==
    U16(Xor16(U16(crc * 256), crc16_table[Xor16(crc \div 256, byte) + 1]))

\* the iterations lo .. hi - 1 of the for loop, in order (the range is halved
\* so that the evaluation stays shallow); data[i] is data[i + 1] here
RECURSIVE crc_loop(_, _, _, _)
crc_loop(crc, data, lo, hi) ==
    IF crc > 65535 \/ lo >= hi THEN crc
    ELSE IF hi - lo = 1 THEN crc_step(crc, data[lo + 1])
    ELSE LET mid == (lo + hi) \div 2 IN
         crc_loop(crc_loop(crc, data, lo, mid), data, mid, hi)

comm_calculate_crc(data, length) == crc_loop(65535, data, 0, length)

\* mutant: the continuation starts over from the initial value
comm_calculate_crc_continue_restart(data, length, crc) ==
    crc_loop(65535, data, 0, length)

comm_calculate_crc_continue(data, length, crc) == crc_loop(crc, data, 0, length)

\* a caller's buffer of 256 bytes, indexed 0 .. 255 as a uint8_t indexes it
ZeroBuf == [i \in 0 .. 255 |-> 0]

\* the for loop of comm_escape_data, iterations lo .. hi - 1; s.out_idx is a
\* uint8_t, so out_idx++ wraps from 255 to 0
RECURSIVE escape_loop(_, _, _, _)
escape_loop(s, src, lo, hi) ==
    IF s.out_idx > 255 \/ lo >= hi THEN s
    ELSE IF hi - lo = 1
    THEN LET b == src[lo + 1] IN
         IF b = COMM_SYNC_BYTE \/ b = COMM_ESCAPE_BYTE
         THEN [dest |-> [s.dest EXCEPT ![s.out_idx] = COMM_ESCAPE_BYTE,
                                       ![U8(s.out_idx + 1)] = Xor8(b, 255)],
               out_idx |-> U8(s.out_idx + 2)]
         ELSE [dest |-> [s.dest EXCEPT ![s.out_idx] = b],
               out_idx |-> U8(s.out_idx + 1)]
    ELSE LET mid == (lo + hi) \div 2 IN
         escape_loop(escape_loop(s, src, lo, mid), src, mid, hi)

\* dest is the caller's buffer before the call; the result is the buffer and
\* *escaped_length after it
comm_escape_data(dest, src, length) ==
    LET s == escape_loop([dest |-> dest, out_idx |-> 0], src, 0, length) IN
    [dest |-> s.dest, escaped_length |-> s.out_idx]

\* the for loop of comm_unescape_data; src is indexed from 0
RECURSIVE unescape_loop(_, _, _, _)
unescape_loop(s, src, lo, hi) ==
    IF s.out_idx > 255 \/ lo >= hi THEN s
    ELSE IF hi - lo = 1
    THEN IF s.escape_next
         THEN [dest |-> [s.dest EXCEPT ![s.out_idx] = Xor8(src[lo], 255)],
               out_idx |-> U8(s.out_idx + 1), escape_next |-> FALSE]
         ELSE IF src[lo] = COMM_ESCAPE_BYTE
         THEN [s EXCEPT !.escape_next = TRUE]
         ELSE [dest |-> [s.dest EXCEPT ![s.out_idx] = src[lo]],
               out_idx |-> U8(s.out_idx + 1), escape_next |-> FALSE]
    ELSE LET mid == (lo + hi) \div 2 IN
         unescape_loop(unescape_loop(s, src, lo, mid), src, mid, hi)

\* dest and unescaped_length are the caller's buffer and length variable
\* before the call; the result carries them after it with the return value
comm_unescape_data(dest, src, length, unescaped_length) ==
    LET s == unescape_loop([dest |-> dest, out_idx |-> 0, escape_next |-> FALSE],
                           src, 0, length) IN
    IF s.escape_next
    THEN [ret |-> FALSE, dest |-> s.dest, unescaped_length |-> unescaped_length]
    ELSE [ret |-> TRUE, dest |-> s.dest, unescaped_length |-> s.out_idx]

\* operator | on 16-bit values
Or16(a, b) == a + b - And16(a, b)

\* packet_type_t and error_code_t values used by the protocol code
PACKET_TYPE_CMD_RESET == 1
PACKET_TYPE_CMD_START_CAPTURE == 2
PACKET_TYPE_CMD_STOP_CAPTURE == 3
PACKET_TYPE_CMD_SET_FILTER == 4
PACKET_TYPE_CMD_GET_STATUS == 5
PACKET_TYPE_CMD_SET_TIMESTAMP == 6
PACKET_TYPE_CMD_SET_CONFIG == 7
PACKET_TYPE_STATUS_REPORT == 130
PACKET_TYPE_ACK == 240
PACKET_TYPE_NACK == 241
ERR_INVALID_COMMAND == 1
ERR_CRC_FAILURE == 3

\* mutant: the field goes out as it is
esc_raw(b) == <<b>>

\* one field of a frame as comm_send_packet sends it: the escape byte and the
\* complement for 0xAA and 0x55, the byte itself otherwise
esc(b) ==
    IF b = COMM_SYNC_BYTE \/ b = COMM_ESCAPE_BYTE
    THEN <<COMM_ESCAPE_BYTE, Xor8(b, 255)>>
    ELSE <<b>>

\* the data loop of comm_send_packet: the bytes it offers for data[lo .. hi - 1]
RECURSIVE esc_data(_, _, _)
esc_data(data, lo, hi) ==
    IF lo >= hi THEN <<>>
    ELSE IF hi - lo = 1 THEN esc(data[lo + 1])
    ELSE LET mid == (lo + hi) \div 2 IN
         esc_data(data, lo, mid) \o esc_data(data, mid, hi)

\* the CRC comm_send_packet and process_rx_byte compute over the header and
\* the data
header_crc(type, length, sequence, data) ==
    comm_calculate_crc_continue(data, length,
        comm_calculate_crc(<<U8(type), length, sequence>>, 3))

\* the bytes comm_send_packet offers to uart_send_byte after the sequence
\* number: the data and the two CRC bytes, high byte first
frame_tail(data, length, crc) ==
    esc_data(data, 0, length) \o esc(And16(crc \div 256, 255)) \o esc(And16(crc, 255))

\* the bytes comm_send_packet offers to uart_send_byte before the sequence
\* number
frame_head(type, length) == <<COMM_SYNC_BYTE>> \o esc(U8(type)) \o esc(length)

\* all bytes of one call when tx_sequence reads as sequence throughout
frame_bytes(type, data, length, sequence, crc) ==
    frame_head(type, length) \o esc(sequence) \o frame_tail(data, length, crc)

\* uart_send_byte in interrupt context (I flag clear). t holds the transmit
\* state: tx (uart_tx_buffer), udre, udr, udrie, wire, and hw, the number of
\* bytes the transmitter can still take out of UDR0 while the interrupt runs
uart_send_byte(t, data) ==
    IF t.udre /\ ringbuffer_empty(t.tx)
    THEN IF t.hw > 0
         THEN [t EXCEPT !.udr = data, !.wire = Append(@, data), !.hw = @ - 1,
                        !.ret = TRUE, !.handed = Append(@, data)]
         ELSE [t EXCEPT !.udr = data, !.udre = FALSE,
                        !.ret = TRUE, !.handed = Append(@, data)]
    ELSE LET p == ringbuffer_push(t.tx, data) IN
         [t EXCEPT !.tx = p.rb,
                   !.udrie = @ \/ (p.ret /\ ringbuffer_count(p.rb) = 1),
                   !.ret = p.ret,
                   !.handed = IF p.ret THEN Append(@, data) ELSE @]

\* the calls of uart_send_byte in comm_send_packet, for bytes[lo + 1 .. hi],
\* up to the first that fails
RECURSIVE send_loop(_, _, _, _)
send_loop(t, bytes, lo, hi) ==
    IF ~t.ret \/ lo >= hi THEN t
    ELSE IF hi - lo = 1 THEN uart_send_byte(t, bytes[lo + 1])
    ELSE LET mid == (lo + hi) \div 2 IN
         send_loop(send_loop(t, bytes, lo, mid), bytes, mid, hi)

\* one finished call of comm_send_packet, as the logs keep it
SendRecord(ctx, type, data, sequence, ret, handed) ==
    [ctx |-> ctx, type |-> type, data |-> data, sequence |-> sequence,
     ret |-> ret, handed |-> handed]

\* comm_send_packet in interrupt context: no other code runs in between, so
\* tx_sequence reads the same at lines 146 and 172 .. 176
comm_send_packet(t, type, data, length) ==
    IF length > COMM_MAX_PACKET_SIZE
    THEN [t EXCEPT !.ret = FALSE]
    ELSE LET sequence == t.tx_sequence
             crc == header_crc(type, length, sequence, data)
             bytes == frame_bytes(type, data, length, sequence, crc)
             s == send_loop([t EXCEPT !.ret = TRUE, !.handed = <<>>],
                            bytes, 0, Len(bytes))
         IN [s EXCEPT !.tx_sequence = IF s.ret THEN U8(@ + 1) ELSE @,
                      !.n_sent = IF s.ret THEN @ + 1 ELSE @,
                      !.sends = Append(@, SendRecord("isr", type, data, sequence,
                                                     s.ret, s.handed))]

comm_send_ack(t, sequence) ==
    LET s == comm_send_packet(t, PACKET_TYPE_ACK, <<sequence>>, 1) IN
    [s EXCEPT !.acks = Append(@, sequence)]

comm_send_nack(t, sequence, error) ==
    LET s == comm_send_packet(t, PACKET_TYPE_NACK, <<sequence, error>>, 2) IN
    [s EXCEPT !.nacks = Append(@, [sequence |-> sequence, error |-> error])]

\* the packet as comm_process_command is handed it: the header fields, the
\* length bytes of data the header announces, and the CRC
Delivered(packet) ==
    [type |-> packet.type, length |-> packet.length, sequence |-> packet.sequence,
     data |-> SubSeq(packet.data, 1, packet.length), crc |-> packet.crc]

\* mutant: every type is acknowledged
comm_process_command_ack_all(t, packet) ==
    comm_send_ack([t EXCEPT !.dispatched = Append(@, Delivered(packet))],
                  packet.sequence)

comm_process_command(t, packet) ==
    LET t1 == [t EXCEPT !.dispatched = Append(@, Delivered(packet))] IN
    IF packet.type \in {PACKET_TYPE_CMD_RESET, PACKET_TYPE_CMD_START_CAPTURE,
                        PACKET_TYPE_CMD_STOP_CAPTURE, PACKET_TYPE_CMD_SET_FILTER,
                        PACKET_TYPE_CMD_GET_STATUS, PACKET_TYPE_CMD_SET_TIMESTAMP,
                        PACKET_TYPE_CMD_SET_CONFIG}
    THEN comm_send_ack(t1, packet.sequence)
    ELSE comm_send_nack(t1, packet.sequence, ERR_INVALID_COMMAND)

\* rx_packet (the sync field is never written); data is the array of
\* COMM_MAX_PACKET_SIZE bytes, cell i of the source at position i + 1
comm_packet_t ==
    [type |-> 0, length |-> 0, sequence |-> 0,
     data |-> [i \in 1 .. COMM_MAX_PACKET_SIZE |-> 0], crc |-> 0]

\* the statics of the receive state machine after comm_init
rx_init ==
    [rx_state |-> "WAIT_SYNC", rx_data_count |-> 0, rx_packet_length |-> 0,
     rx_packet |-> comm_packet_t, escape_next |-> FALSE, unescaped_byte |-> 0]

\* calculated_crc of process_rx_byte
packet_crc(packet) ==
    header_crc(packet.type, packet.length, packet.sequence, packet.data)

\* mutant: every frame passes the CRC comparison
rx_crc_ok_always(packet) == TRUE

\* calculated_crc == rx_packet.crc
rx_crc_ok(packet) == packet_crc(packet) = packet.crc

\* mutant: the unescaped byte is compared with the sync byte
is_sync_unescaped(r, byte) == r.unescaped_byte = COMM_SYNC_BYTE

\* line 472: byte == COMM_SYNC_BYTE, on the byte as received
is_sync(r, byte) == byte = COMM_SYNC_BYTE

\* mutant: the data state is left one byte late
rx_data_done_late(r) == r.rx_data_count > r.rx_packet_length

\* line 505: rx_data_count >= rx_packet_length
rx_data_done(r) == r.rx_data_count >= r.rx_packet_length

\* the switch of process_rx_byte on rx_state, with unescaped_byte set
rx_switch(r, t, byte) ==
    LET u == r.unescaped_byte IN
    CASE r.rx_state = "WAIT_SYNC" ->
           IF is_sync(r, byte)
           THEN [r |-> [r EXCEPT !.rx_state = "TYPE", !.rx_data_count = 0], t |-> t]
           ELSE [r |-> r, t |-> t]
      [] r.rx_state = "TYPE" ->
           [r |-> [r EXCEPT !.rx_packet.type = u, !.rx_state = "LENGTH"], t |-> t]
      [] r.rx_state = "LENGTH" ->
           [r |-> [r EXCEPT !.rx_packet.length = u, !.rx_packet_length = u,
                            !.rx_state = "SEQUENCE"], t |-> t]
      [] r.rx_state = "SEQUENCE" ->
           [r |-> [r EXCEPT !.rx_packet.sequence = u,
                            !.rx_state = IF r.rx_packet_length > 0
                                         THEN "DATA" ELSE "CRC_HIGH"], t |-> t]
      [] r.rx_state = "DATA" ->
           LET r1 == IF r.rx_data_count < COMM_MAX_PACKET_SIZE
                     THEN [r EXCEPT !.rx_packet.data[r.rx_data_count + 1] = u,
                                    !.rx_data_count = U8(@ + 1)]
                     ELSE r
           IN [r |-> [r1 EXCEPT !.rx_state = IF rx_data_done(r1)
                                             THEN "CRC_HIGH" ELSE "DATA"], t |-> t]
      [] r.rx_state = "CRC_HIGH" ->
           [r |-> [r EXCEPT !.rx_packet.crc = U16(u * 256), !.rx_state = "CRC_LOW"],
            t |-> t]
      [] r.rx_state = "CRC_LOW" ->
           LET r1 == [r EXCEPT !.rx_packet.crc = Or16(@, u)]
               t1 == IF rx_crc_ok(r1.rx_packet)
                     THEN comm_process_command(t, r1.rx_packet)
                     ELSE comm_send_nack(t, r1.rx_packet.sequence, ERR_CRC_FAILURE)
           IN [r |-> [r1 EXCEPT !.rx_state = "WAIT_SYNC"], t |-> t1]

process_rx_byte(r, t, byte) ==
    IF r.escape_next
    THEN rx_switch([r EXCEPT !.unescaped_byte = Xor8(byte, 255), !.escape_next = FALSE],
                   t, byte)
    ELSE IF byte = COMM_ESCAPE_BYTE
    THEN [r |-> [r EXCEPT !.escape_next = TRUE], t |-> t]
    ELSE rx_switch([r EXCEPT !.unescaped_byte = byte], t, byte)

\* a frame as the host puts it on the receive line; crc_xor = 0 gives the
\* right CRC, anything else a damaged low byte
host_frame(type, data, sequence, crc_xor) ==
    LET length == Len(data)
        crc == header_crc(type, length, sequence, data)
    IN frame_head(type, length) \o esc(sequence) \o esc_data(data, 0, length)
       \o esc(And16(crc \div 256, 255)) \o esc(Xor8(And16(crc, 255), crc_xor))

VARIABLES
    rb,         \* SpecRb: the ring buffer
    rb_op,      \* SpecRb: the last call made
    rb_ret,     \* SpecRb: what it returned
    rb_out,     \* SpecRb: the caller's output byte (*data of ringbuffer_pop)
    rb_outs,    \* SpecRb: the caller's output array of ringbuffer_pop_multiple
    rb_calls,   \* SpecRb: the number of calls made
    q,          \* SpecSpsc: the shared ring buffer
    c_pc,       \* SpecSpsc: the consumer's place in ringbuffer_pop
    c_r,        \* SpecSpsc: the read_index the consumer read at line 101
    c_data,     \* SpecSpsc: the consumer's output byte (*data)
    c_ret,      \* SpecSpsc: what the consumer's last ringbuffer_pop returned
    sp_n,       \* SpecSpsc: the number of bytes the producer has offered
    pushed,     \* SpecSpsc: the bytes accepted by successful pushes, in order
    popped,     \* SpecSpsc: the bytes returned by successful pops, in order
    e_pc,       \* SpecEsc: "src", "escaped" or "unescaped"
    e_src,      \* SpecEsc: the bytes handed to comm_escape_data
    e_esc,      \* SpecEsc: the escaped buffer and its length
    e_un,       \* SpecEsc: what comm_unescape_data made of it
    k_pc,       \* SpecCrc: "in" or "done"
    k_x,        \* SpecCrc: the first byte sequence
    k_y,        \* SpecCrc: the second byte sequence
    k_inc,      \* SpecCrc: the CRC continued over k_y from the CRC of k_x
    k_one,      \* SpecCrc: the CRC of k_x followed by k_y in one call
    uart_tx_buffer, \* SpecComm: the transmit ring buffer
    uart_rx_buffer, \* SpecComm: the receive ring buffer
    UDRE0,      \* SpecComm: the data-register-empty flag of the USART
    UDR0,       \* SpecComm: the byte last written to the transmit data register
    UDRIE0,     \* SpecComm: the data-register-empty interrupt enable bit
    wire,       \* SpecComm: the bytes the transmitter has put on the link
    tx_sequence, \* SpecComm: the transmit sequence number
    rx,         \* SpecComm: the statics of the receive state machine
    m,          \* SpecComm: comm_send_packet in the main loop: place and locals
    sends,      \* SpecComm: the finished calls of comm_send_packet
    acks,       \* SpecComm: the arguments of the calls of comm_send_ack
    nacks,      \* SpecComm: the arguments of the calls of comm_send_nack
    dispatched, \* SpecComm: the packets handed to comm_process_command
    n_sent,     \* SpecComm: calls of comm_send_packet that returned true since comm_init
    h_in,       \* SpecComm: the bytes of the host's frame still to arrive
    h_n,        \* SpecComm: the number of frames the host has started
    m_n,       \* SpecComm: the number of calls made by the main loop
    enc,       \* SpecLoop: the type, sequence number and data handed to the encoder
    prog,      \* SpecCmd: the statics of main.c
    usb,       \* SpecCmd: the statics of usb_interface.c
    handled,   \* SpecCmd: the packets handed to handle_command_packet
    cmd_n,     \* SpecCmd: the number of calls of handle_command_packet
    d_pc,      \* SpecDecode: "in" or "done"
    d_raw,     \* SpecDecode: the raw bytes handed to usb_decode_packet
    d_ret,     \* SpecDecode: what usb_decode_packet returned
    d_pkt,     \* SpecDecode: the caller's usb_packet_t
    tracked,   \* SpecTrack: per raw packet processed, what process_raw_packet made of it
    trk_n,     \* SpecTrack: the number of raw packets processed
    f_pkt,     \* SpecFilter: the packet last handed to usb_process_packet
    f_pc,      \* SpecFilter: "in" or "done"
    line,      \* SpecBus: the levels of D+ and D- and whether bus power is sensed
    se0,       \* SpecBus: the last SE0 condition: whether it lasts, the ticks it was held, the reset frames before it
    detections, \* SpecBus: the number of bus resets ISR(INT0_vect) has detected
    polled,    \* SpecBus: whether the main loop has looked at the bus since the last line change
    b_n,       \* SpecBus: the numbers of line changes, clock advances, main loop passes and packets
    wdt_n,     \* SpecFatal: the number of watchdog expiries
    samples,   \* SpecPoll: the samples usb_detect_bus_state was given, with the state before and after
    rx_trace,  \* SpecFsm: one entry for every byte the receive interrupt was given
    sig_events, \* SpecSig: the readings of the lines still to come, each with the ticks before it
    sig_sent,  \* SpecSig: the bytes of the packets the readings carry, packet by packet
    sig_log,   \* SpecSig: one entry for every run of ISR(INT0_vect) that read both lines low
    en,        \* the call of usb_monitor_enable under way: its position, SREG, locals
    tm,        \* SpecTime: the I flag, the overflow flag of timer 1, the reader under way and the values read
    cap        \* SpecCapture: the position of the main loop, the locals of process_usb_packets, what the last call of usb_capture_packet did

rbVars == <<rb, rb_op, rb_ret, rb_out, rb_outs, rb_calls>>
spVars == <<q, c_pc, c_r, c_data, c_ret, sp_n, pushed, popped>>

escVars == <<e_pc, e_src, e_esc, e_un>>
crcVars == <<k_pc, k_x, k_y, k_inc, k_one>>

commVars == <<uart_tx_buffer, uart_rx_buffer, UDRE0, UDR0, UDRIE0, wire, tx_sequence,
              rx, m, sends, acks, nacks, dispatched, n_sent, h_in, h_n, m_n>>

loopVars == <<enc>>

progVars == <<prog, usb, handled, cmd_n>>

decVars == <<d_pc, d_raw, d_ret, d_pkt>>

trkVars == <<tracked, trk_n, f_pkt, f_pc>>

busVars == <<line, se0, detections, polled, b_n>>

wdtVars == <<wdt_n>>

pollVars == <<samples>>

fsmVars == <<rx_trace>>

sigVars == <<sig_events, sig_sent, sig_log>>

enVars == <<en>>

timeVars == <<tm>>

capVars == <<cap>>

vars == <<rbVars, spVars, escVars, crcVars, commVars, loopVars, progVars, decVars, trkVars, busVars, wdtVars, pollVars, fsmVars, sigVars, enVars, timeVars, capVars>>

\* what each specification leaves alone
rbOthers == <<spVars, escVars, crcVars, commVars, loopVars, progVars, decVars, trkVars, busVars, wdtVars, pollVars, fsmVars, sigVars, enVars, timeVars, capVars>>
spOthers == <<rbVars, escVars, crcVars, commVars, loopVars, progVars, decVars, trkVars, busVars, wdtVars, pollVars, fsmVars, sigVars, enVars, timeVars, capVars>>
escOthers == <<rbVars, spVars, crcVars, commVars, loopVars, progVars, decVars, trkVars, busVars, wdtVars, pollVars, fsmVars, sigVars, enVars, timeVars, capVars>>
crcOthers == <<rbVars, spVars, escVars, commVars, loopVars, progVars, decVars, trkVars, busVars, wdtVars, pollVars, fsmVars, sigVars, enVars, timeVars, capVars>>
commOthers == <<rbVars, spVars, escVars, crcVars, loopVars, progVars, decVars, trkVars, busVars, wdtVars, pollVars, fsmVars, sigVars, enVars, timeVars, capVars>>
progOthers == <<rbVars, spVars, escVars, crcVars, commVars, loopVars, decVars, trkVars, busVars, wdtVars, pollVars, fsmVars, sigVars, enVars, timeVars, capVars>>
decOthers == <<rbVars, spVars, escVars, crcVars, commVars, loopVars, progVars, trkVars, busVars, wdtVars, pollVars, fsmVars, sigVars, enVars, timeVars, capVars>>
cmdOthers == <<rbVars, spVars, escVars, crcVars, loopVars, decVars, trkVars, busVars, wdtVars, pollVars, fsmVars, sigVars, enVars, timeVars, capVars>>
trackOthers == <<rbVars, spVars, escVars, crcVars, loopVars, decVars, busVars, wdtVars, pollVars, fsmVars, sigVars, enVars, timeVars, capVars>>
trkOthers == <<rbVars, spVars, escVars, crcVars, commVars, loopVars, progVars, decVars, busVars, wdtVars, pollVars, fsmVars, sigVars, enVars, timeVars, capVars>>
busOthers == <<rbVars, spVars, escVars, crcVars, commVars, loopVars, progVars, decVars, trkVars, wdtVars, pollVars, fsmVars, sigVars, enVars, timeVars, capVars>>
lineOthers == <<rbVars, spVars, escVars, crcVars, loopVars, decVars, wdtVars, pollVars, fsmVars, sigVars, enVars, timeVars, capVars>>
wdtOthers == <<rbVars, spVars, escVars, crcVars, commVars, loopVars, progVars, decVars, trkVars, busVars, pollVars, fsmVars, sigVars, enVars, timeVars, capVars>>
fatalOthers == <<rbVars, spVars, escVars, crcVars, loopVars, decVars, trkVars, busVars, pollVars, fsmVars, sigVars, enVars, timeVars, capVars>>
pollOthers == <<rbVars, spVars, escVars, crcVars, commVars, loopVars, progVars, decVars, trkVars, busVars, wdtVars, fsmVars, sigVars, enVars, timeVars, capVars>>
detectOthers == <<rbVars, spVars, escVars, crcVars, loopVars, decVars, trkVars, busVars, wdtVars, fsmVars, sigVars, enVars, timeVars, capVars>>
fsmOthers == <<rbVars, spVars, escVars, crcVars, commVars, loopVars, progVars, decVars, trkVars, busVars, wdtVars, pollVars, sigVars, enVars, timeVars, capVars>>
rxOthers == <<rbVars, spVars, escVars, crcVars, loopVars, progVars, decVars, trkVars, busVars, wdtVars, pollVars, sigVars, enVars, timeVars, capVars>>
sigOthers == <<rbVars, spVars, escVars, crcVars, commVars, loopVars, progVars, decVars, trkVars, busVars, wdtVars, pollVars, fsmVars, enVars, timeVars, capVars>>
edgeOthers == <<rbVars, spVars, escVars, crcVars, loopVars, decVars, trkVars, busVars, wdtVars, pollVars, fsmVars, enVars, timeVars, capVars>>
enOthers == <<rbVars, spVars, escVars, crcVars, loopVars, decVars, trkVars, busVars, wdtVars, pollVars, fsmVars, timeVars, capVars>>
timeOthers == <<rbVars, spVars, escVars, crcVars, commVars, loopVars, decVars, trkVars, busVars, wdtVars, pollVars, fsmVars, sigVars, enVars, capVars>>
capOthers == <<rbVars, spVars, escVars, crcVars, loopVars, decVars, trkVars, busVars, wdtVars, pollVars, fsmVars, enVars, timeVars>>

\* the value of an object the specification at hand does not run with
Absent == <<>>

m_idle ==
    [pc |-> "idle", type |-> 0, data |-> <<>>, length |-> 0, sequence |-> 0,
     crc |-> 0, todo |-> <<>>, phase |-> "none", handed |-> <<>>, tmp |-> 0]

CommIdle ==
    /\ uart_tx_buffer = Absent
    /\ uart_rx_buffer = Absent
    /\ UDRE0 = TRUE
    /\ UDR0 = 0
    /\ UDRIE0 = FALSE
    /\ wire = <<>>
    /\ tx_sequence = 0
    /\ rx = Absent
    /\ m = m_idle
    /\ sends = <<>>
    /\ acks = <<>>
    /\ nacks = <<>>
    /\ dispatched = <<>>
    /\ n_sent = 0
    /\ h_in = <<>>
    /\ h_n = 0
    /\ m_n = 0

LoopIdle ==
    enc = Absent

ProgIdle ==
    /\ prog = Absent
    /\ usb = Absent
    /\ handled = <<>>
    /\ cmd_n = 0

DecIdle ==
    /\ d_pc = "idle"
    /\ d_raw = <<>>
    /\ d_ret = FALSE
    /\ d_pkt = Absent

TrkIdle ==
    /\ tracked = <<>>
    /\ trk_n = 0
    /\ f_pkt = Absent
    /\ f_pc = "idle"

BusIdle ==
    /\ line = Absent
    /\ se0 = Absent
    /\ detections = 0
    /\ polled = FALSE
    /\ b_n = Absent

WdtIdle ==
    /\ wdt_n = 0

PollIdle ==
    /\ samples = <<>>

FsmIdle ==
    /\ rx_trace = <<>>

SigIdle ==
    /\ sig_events = <<>>
    /\ sig_sent = <<>>
    /\ sig_log = <<>>

EnIdle ==
    en = Absent

TimeIdle ==
    tm = Absent

CapIdle ==
    cap = Absent

EscIdle ==
    /\ e_pc = "idle"
    /\ e_src = <<>>
    /\ e_esc = Absent
    /\ e_un = Absent

CrcIdle ==
    /\ k_pc = "idle"
    /\ k_x = <<>>
    /\ k_y = <<>>
    /\ k_inc = 0
    /\ k_one = 0

SpIdle ==
    /\ q = Absent
    /\ c_pc = "idle"
    /\ c_r = 0
    /\ c_data = 0
    /\ c_ret = FALSE
    /\ sp_n = 0
    /\ pushed = <<>>
    /\ popped = <<>>

(***************************************************************************)
(* SpecRb: sequential calls on one ring buffer.                            *)
(***************************************************************************)
MaxRbCalls == 4
\* lengths handed to the _multiple calls: none, a few, exactly what fits, and
\* the largest uint8_t (more than fits)
RbLens == {0, 3, RINGBUF_SIZE - 1, 255}
\* bytes pushed one at a time
RbBytes == {17, 170}
\* the source array of push_multiple: a ramp, so that every cell differs
Ramp(base, len) == [i \in 1 .. len |-> U8(base + i - 1)]
RbBases == {1}

RbIdle ==
    /\ rb = Absent
    /\ rb_op = "none"
    /\ rb_ret = 0
    /\ rb_out = 0
    /\ rb_outs = Absent
    /\ rb_calls = 0

\* the state after construction: zeroed static storage, then ringbuffer_init
RbInit ==
    /\ rb = ringbuffer_init(ringbuffer_t)
    /\ rb_op = "init"
    /\ rb_ret = 0
    /\ rb_out = 0
    /\ rb_outs = [i \in 1 .. 255 |-> 0]
    /\ rb_calls = 0

RbCallInit ==
    /\ rb_calls < MaxRbCalls
    /\ rb' = ringbuffer_init(rb)
    /\ rb_op' = "init"
    /\ rb_calls' = rb_calls + 1
    /\ UNCHANGED <<rb_ret, rb_out, rb_outs>>
    /\ UNCHANGED rbOthers

RbCallPush ==
    /\ rb_calls < MaxRbCalls
    /\ \E b \in RbBytes :
         LET p == ringbuffer_push(rb, b) IN
         /\ rb' = p.rb
         /\ rb_ret' = p.ret
    /\ rb_op' = "push"
    /\ rb_calls' = rb_calls + 1
    /\ UNCHANGED <<rb_out, rb_outs>>
    /\ UNCHANGED rbOthers

RbCallPop ==
    /\ rb_calls < MaxRbCalls
    /\ LET p == ringbuffer_pop(rb, rb_out) IN
         /\ rb' = p.rb
         /\ rb_ret' = p.ret
         /\ rb_out' = p.data
    /\ rb_op' = "pop"
    /\ rb_calls' = rb_calls + 1
    /\ UNCHANGED rb_outs
    /\ UNCHANGED rbOthers

RbCallReset ==
    /\ rb_calls < MaxRbCalls
    /\ rb' = ringbuffer_reset(rb)
    /\ rb_op' = "reset"
    /\ rb_calls' = rb_calls + 1
    /\ UNCHANGED <<rb_ret, rb_out, rb_outs>>
    /\ UNCHANGED rbOthers

RbCallPushMultiple ==
    /\ rb_calls < MaxRbCalls
    /\ \E base \in RbBases, len \in RbLens :
         LET p == ringbuffer_push_multiple(rb, Ramp(base, len), len) IN
         /\ rb' = p.rb
         /\ rb_ret' = p.ret
    /\ rb_op' = "push_multiple"
    /\ rb_calls' = rb_calls + 1
    /\ UNCHANGED <<rb_out, rb_outs>>
    /\ UNCHANGED rbOthers

RbCallPopMultiple ==
    /\ rb_calls < MaxRbCalls
    /\ \E len \in RbLens :
         LET p == ringbuffer_pop_multiple(rb, rb_outs, len) IN
         /\ rb' = p.rb
         /\ rb_ret' = p.ret
         /\ rb_outs' = p.data
    /\ rb_op' = "pop_multiple"
    /\ rb_calls' = rb_calls + 1
    /\ UNCHANGED rb_out
    /\ UNCHANGED rbOthers

RbNext ==
    \/ RbCallInit
    \/ RbCallPush
    \/ RbCallPop
    \/ RbCallReset
    \/ RbCallPushMultiple
    \/ RbCallPopMultiple

RbSpecInit == RbInit /\ SpIdle /\ EscIdle /\ CrcIdle /\ CommIdle /\ LoopIdle /\ ProgIdle /\ DecIdle /\ TrkIdle /\ BusIdle /\ WdtIdle /\ PollIdle /\ FsmIdle /\ SigIdle /\ EnIdle /\ TimeIdle /\ CapIdle

SpecRb == RbSpecInit /\ [][RbNext]_vars

(***************************************************************************)
(* C1: after any sequence of init, push, pop, reset, push_multiple and     *)
(* pop_multiple calls, ringbuffer_count + ringbuffer_free is               *)
(* RINGBUF_SIZE - 1 = 127 and ringbuffer_count is at most 127.             *)
(***************************************************************************)
C1_CountPlusFree ==
    /\ ringbuffer_count(rb) + ringbuffer_free(rb) = RINGBUF_SIZE - 1
    /\ ringbuffer_count(rb) <= 127

\* a full buffer whose write index has wrapped below its read index
C1_Witness ==
    /\ rb_calls >= 3
    /\ rb.write_index < rb.read_index
    /\ ringbuffer_count(rb) = 127
    /\ ringbuffer_free(rb) = 0

(***************************************************************************)
(* C2: ringbuffer_push on a full buffer (count = 127) returns false, adds   *)
(* one to overflow_count (a uint8_t) and leaves write_index, read_index and *)
(* every unread byte as they were.                                          *)
(***************************************************************************)
C2_PushOnFull ==
    [][(rb_op' = "push" /\ rb_calls' = rb_calls + 1 /\ ringbuffer_count(rb) = 127)
        => /\ rb_ret' = FALSE
           /\ rb'.overflow_count = U8(rb.overflow_count + 1)
           /\ rb'.write_index = rb.write_index
           /\ rb'.read_index = rb.read_index
           /\ Unread(rb') = Unread(rb)]_vars

\* a push has just been refused by a full buffer
C2_Witness ==
    /\ rb_op = "push"
    /\ rb_ret = FALSE
    /\ ringbuffer_count(rb) = 127
    /\ rb.overflow_count >= 1

(***************************************************************************)
(* C3: ringbuffer_pop on an empty buffer (write_index = read_index) returns *)
(* false and leaves read_index, write_index, overflow_count and the output  *)
(* byte as they were.                                                       *)
(***************************************************************************)
C3_PopOnEmpty ==
    [][(rb_op' = "pop" /\ rb_calls' = rb_calls + 1 /\ rb.write_index = rb.read_index)
        => /\ rb_ret' = FALSE
           /\ rb'.read_index = rb.read_index
           /\ rb'.write_index = rb.write_index
           /\ rb'.overflow_count = rb.overflow_count
           /\ rb_out' = rb_out]_vars

\* a pop has just been refused by an empty buffer whose cell under read_index
\* holds another byte than the caller's output byte
C3_Witness ==
    /\ rb_op = "pop"
    /\ rb_ret = FALSE
    /\ rb.write_index = rb.read_index
    /\ rb.buffer[rb.read_index] # rb_out

(***************************************************************************)
(* SpecSpsc: the ring buffer between an interrupt handler and the main     *)
(* context.  The producer is an ISR: a whole ringbuffer_push runs between  *)
(* any two statements of the consumer, and the consumer never runs inside  *)
(* a push.  The consumer's ringbuffer_pop is split at its accesses to the  *)
(* shared structure.  The producer offers the bytes 0, 1, 2, ... (mod 256),*)
(* so every byte in the buffer differs from its neighbours and a lost,     *)
(* repeated or reordered byte shows.  No lock is taken anywhere.           *)
(***************************************************************************)
MaxSpPushes == 130

SpInit ==
    /\ q = ringbuffer_init(ringbuffer_t)
    /\ c_pc = "idle"
    /\ c_r = 0
    /\ c_data = 0
    /\ c_ret = FALSE
    /\ sp_n = 0
    /\ pushed = <<>>
    /\ popped = <<>>

\* the producer's interrupt: one whole ringbuffer_push of the next byte
IsrPush ==
    /\ sp_n < MaxSpPushes
    /\ LET p == ringbuffer_push(q, U8(sp_n)) IN
         /\ q' = p.rb
         /\ pushed' = IF p.ret THEN Append(pushed, U8(sp_n)) ELSE pushed
    /\ sp_n' = sp_n + 1
    /\ UNCHANGED <<c_pc, c_r, c_data, c_ret, popped>>
    /\ UNCHANGED spOthers

\* the consumer calls ringbuffer_pop(&q, &c_data)
PopCall ==
    /\ c_pc = "idle"
    /\ Len(popped) < MaxSpPushes
    /\ c_pc' = "L101_read"
    /\ UNCHANGED <<q, c_r, c_data, c_ret, sp_n, pushed, popped>>
    /\ UNCHANGED spOthers

\* line 101, left operand: rb->read_index
PopL101ReadIndex ==
    /\ c_pc = "L101_read"
    /\ c_r' = q.read_index
    /\ c_pc' = "L101_write"
    /\ UNCHANGED <<q, c_data, c_ret, sp_n, pushed, popped>>
    /\ UNCHANGED spOthers

\* line 101, right operand rb->write_index and the comparison; line 102
PopL101Compare ==
    /\ c_pc = "L101_write"
    /\ IF c_r = q.write_index
       THEN c_ret' = FALSE /\ c_pc' = "idle"
       ELSE c_ret' = c_ret /\ c_pc' = "L105"
    /\ UNCHANGED <<q, c_r, c_data, sp_n, pushed, popped>>
    /\ UNCHANGED spOthers

\* line 105: *data = rb->buffer[rb->read_index]
PopL105 ==
    /\ c_pc = "L105"
    /\ c_data' = q.buffer[q.read_index]
    /\ c_pc' = "L106"
    /\ UNCHANGED <<q, c_r, c_ret, sp_n, pushed, popped>>
    /\ UNCHANGED spOthers

\* the index line 106 stores
pop_next_read(rbuf) == And16(rbuf.read_index + 1, RINGBUF_MASK)

\* lines 106 and 108: the read index moves on and the pop returns true
PopL106 ==
    /\ c_pc = "L106"
    /\ q' = [q EXCEPT !.read_index = pop_next_read(q)]
    /\ c_ret' = TRUE
    /\ popped' = Append(popped, c_data)
    /\ c_pc' = "idle"
    /\ UNCHANGED <<c_r, c_data, sp_n, pushed>>
    /\ UNCHANGED spOthers

SpNext ==
    \/ IsrPush
    \/ PopCall
    \/ PopL101ReadIndex
    \/ PopL101Compare
    \/ PopL105
    \/ PopL106

SpSpecInit == SpInit /\ RbIdle /\ EscIdle /\ CrcIdle /\ CommIdle /\ LoopIdle /\ ProgIdle /\ DecIdle /\ TrkIdle /\ BusIdle /\ WdtIdle /\ PollIdle /\ FsmIdle /\ SigIdle /\ EnIdle /\ TimeIdle /\ CapIdle

SpecSpsc == SpSpecInit /\ [][SpNext]_vars

IsPrefix(s, t) == Len(s) <= Len(t) /\ \A i \in 1 .. Len(s) : s[i] = t[i]

(***************************************************************************)
(* C4: with the producer pushing from an interrupt and the consumer        *)
(* popping in the main context, no lock: the bytes returned by successful  *)
(* pops are at every moment a prefix of the bytes accepted by successful   *)
(* pushes, and the accepted bytes not yet returned are exactly the unread  *)
(* bytes of the buffer (none lost, repeated or reordered); a producer step *)
(* changes only write_index, buffer cells and overflow_count, a consumer   *)
(* step only read_index.                                                   *)
(***************************************************************************)
C4_SpscFifo ==
    /\ [](IsPrefix(popped, pushed) /\ pushed = popped \o Unread(q))
    /\ [][(sp_n' # sp_n) => q'.read_index = q.read_index]_vars
    /\ [][(c_pc' # c_pc) =>
            /\ q'.write_index = q.write_index
            /\ q'.buffer = q.buffer
            /\ q'.overflow_count = q.overflow_count]_vars

\* the consumer is between reading a byte and releasing its cell, the producer
\* has filled the buffer behind it, lost a byte to overflow and wrapped its index
C4_Witness ==
    /\ c_pc = "L106"
    /\ q.overflow_count >= 1
    /\ Len(pushed) > RINGBUF_SIZE
    /\ Len(popped) >= 1
    /\ ringbuffer_full(q)
    /\ q.write_index < q.read_index

(***************************************************************************)
(* SpecEsc: comm_escape_data followed by comm_unescape_data on its output. *)
(* The inputs are every sequence of up to MaxEscSmall bytes over EscBytes   *)
(* and, for every length 0 .. 255, the sequences repeating one pattern.     *)
(***************************************************************************)
MaxEscSmall == 3
EscBytes == {COMM_SYNC_BYTE, COMM_ESCAPE_BYTE, 1}
\* length n: all SYNC, all ESCAPE, no byte to escape, every other byte SYNC
EscPatterns == {<<COMM_SYNC_BYTE>>, <<COMM_ESCAPE_BYTE>>, <<0>>, <<7, COMM_SYNC_BYTE>>}
Repeat(pat, n) == [i \in 1 .. n |-> pat[((i - 1) % Len(pat)) + 1]]
EscInputs ==
    UNION {[1 .. n -> EscBytes] : n \in 0 .. MaxEscSmall}
    \cup {Repeat(pat, n) : pat \in EscPatterns, n \in 0 .. COMM_MAX_PACKET_SIZE}

EscInit ==
    /\ e_pc = "src"
    /\ e_src \in EscInputs
    /\ e_esc = [dest |-> ZeroBuf, escaped_length |-> 0]
    /\ e_un = [ret |-> FALSE, dest |-> ZeroBuf, unescaped_length |-> 0]

EscEscape ==
    /\ e_pc = "src"
    /\ e_esc' = comm_escape_data(e_esc.dest, e_src, Len(e_src))
    /\ e_pc' = "escaped"
    /\ UNCHANGED <<e_src, e_un>>
    /\ UNCHANGED escOthers

EscUnescape ==
    /\ e_pc = "escaped"
    /\ e_un' = comm_unescape_data(e_un.dest, e_esc.dest, e_esc.escaped_length,
                                  e_un.unescaped_length)
    /\ e_pc' = "unescaped"
    /\ UNCHANGED <<e_src, e_esc>>
    /\ UNCHANGED escOthers

EscNext == EscEscape \/ EscUnescape

EscSpecInit == EscInit /\ RbIdle /\ SpIdle /\ CrcIdle /\ CommIdle /\ LoopIdle /\ ProgIdle /\ DecIdle /\ TrkIdle /\ BusIdle /\ WdtIdle /\ PollIdle /\ FsmIdle /\ SigIdle /\ EnIdle /\ TimeIdle /\ CapIdle

SpecEsc == EscSpecInit /\ [][EscNext]_vars

(***************************************************************************)
(* C5: for every byte sequence of length 0 .. 255, comm_unescape_data      *)
(* applied to the output and output length of comm_escape_data succeeds    *)
(* and returns the original bytes and the original length.                 *)
(***************************************************************************)
C5_RoundTrip ==
    e_pc = "unescaped" =>
        /\ e_un.ret = TRUE
        /\ e_un.unescaped_length = Len(e_src)
        /\ \A i \in 1 .. Len(e_src) : e_un.dest[i - 1] = e_src[i]

(***************************************************************************)
(* SpecCrc: comm_calculate_crc and comm_calculate_crc_continue on every    *)
(* pair of sequences of up to MaxCrcLen bytes over CrcBytes.                *)
(***************************************************************************)
MaxCrcLen == 3
CrcBytes == {0, COMM_SYNC_BYTE, 255}
CrcInputs == UNION {[1 .. n -> CrcBytes] : n \in 0 .. MaxCrcLen}

CrcInit ==
    /\ k_pc = "in"
    /\ k_x \in CrcInputs
    /\ k_y \in CrcInputs
    /\ k_inc = 0
    /\ k_one = 0

CrcCompute ==
    /\ k_pc = "in"
    /\ k_inc' = comm_calculate_crc_continue(k_y, Len(k_y),
                                            comm_calculate_crc(k_x, Len(k_x)))
    /\ k_one' = comm_calculate_crc(k_x \o k_y, Len(k_x) + Len(k_y))
    /\ k_pc' = "done"
    /\ UNCHANGED <<k_x, k_y>>
    /\ UNCHANGED crcOthers

CrcNext == CrcCompute

CrcSpecInit == CrcInit /\ RbIdle /\ SpIdle /\ EscIdle /\ CommIdle /\ LoopIdle /\ ProgIdle /\ DecIdle /\ TrkIdle /\ BusIdle /\ WdtIdle /\ PollIdle /\ FsmIdle /\ SigIdle /\ EnIdle /\ TimeIdle /\ CapIdle

SpecCrc == CrcSpecInit /\ [][CrcNext]_vars

(***************************************************************************)
(* C6: continuing the CRC of X over Y gives the CRC of X followed by Y.    *)
(***************************************************************************)
C6_CrcIncremental == k_pc = "done" => k_inc = k_one

\* both parts are non-empty and the CRC of the whole differs from the CRC of
\* either part
C6_Witness ==
    /\ k_pc = "done"
    /\ Len(k_x) >= 2
    /\ Len(k_y) >= 2
    /\ k_inc = k_one
    /\ k_one # comm_calculate_crc(k_x, Len(k_x))
    /\ k_one # comm_calculate_crc(k_y, Len(k_y))

(***************************************************************************)
(* SpecComm: the host link.  comm_send_packet runs in the main loop, one   *)
(* access to shared state per step, and may be interrupted between any two *)
(* of them; the USART receive and data-register-empty interrupts run whole *)
(* (AVR interrupts do not nest); the transmitter moves UDR0 to the link on *)
(* its own.  The host feeds frames to the receive interrupt byte by byte.  *)
(***************************************************************************)
MaxMainSends == 1
MaxRxFrames == 1
MaxLinkBytes == 2

\* frames sent since comm_init when the run starts: none, and the counts
\* that bring tx_sequence to 0x55, just below 0xAA and to the wrap
InitSent == {0, COMM_ESCAPE_BYTE, COMM_SYNC_BYTE - 1, 255}

\* bytes still queued in uart_tx_buffer when the run starts: zero payload
\* bytes of an earlier comm_send_usb_packet frame the link has not taken yet
TxBacklogs == {0, RINGBUF_SIZE - 4, RINGBUF_SIZE - 1}

\* arguments of comm_send_status_report in the main loop: one device, capture
\* running, buffer_usage 85 (it steps through 0 .. 99)
MainReports == {<<1, 1, COMM_ESCAPE_BYTE>>}

\* status_data of comm_send_status_report
status_data(device_count, capture_state, buffer_usage) ==
    <<device_count, capture_state,
      And16(buffer_usage \div 256, 255), And16(buffer_usage, 255)>>

\* the longest ACK or NACK frame: sync, then type, length, sequence, two data
\* bytes and two CRC bytes, each possibly escaped
IsrFrameMax == 1 + 2 * (3 + 2 + 2)

HostFrames ==
    {host_frame(PACKET_TYPE_CMD_GET_STATUS, <<>>, 7, 0),
     host_frame(PACKET_TYPE_CMD_GET_STATUS, <<>>, 7, 1),
     host_frame(PACKET_TYPE_CMD_SET_FILTER, <<COMM_SYNC_BYTE>>, COMM_ESCAPE_BYTE, 0),
     host_frame(PACKET_TYPE_STATUS_REPORT, <<>>, 9, 0)}

CommInit ==
    /\ \E k \in TxBacklogs :
         /\ uart_tx_buffer = [ringbuffer_init(ringbuffer_t) EXCEPT !.write_index = k]
         /\ UDRE0 = (k = 0)
         /\ UDRIE0 = (k > 0)
    /\ uart_rx_buffer = ringbuffer_init(ringbuffer_t)
    /\ UDR0 = 0
    /\ wire = <<>>
    /\ n_sent \in InitSent
    /\ tx_sequence = U8(n_sent)
    /\ rx = rx_init
    /\ m = m_idle
    /\ sends = <<>>
    /\ acks = <<>>
    /\ nacks = <<>>
    /\ dispatched = <<>>
    /\ h_in = <<>>
    /\ h_n = 0
    /\ m_n = 0

\* comm_send_status_report in the main loop up to the read of tx_sequence at
\* line 146 of comm_send_packet
MainCall ==
    /\ m.pc = "idle"
    /\ m_n < MaxMainSends
    /\ \E a \in MainReports :
         LET data == status_data(a[1], a[2], a[3])
             type == PACKET_TYPE_STATUS_REPORT
             length == 4
         IN m' = [pc |-> IF length > COMM_MAX_PACKET_SIZE THEN "idle" ELSE "L107",
                  type |-> type, data |-> data, length |-> length,
                  sequence |-> tx_sequence,
                  crc |-> header_crc(type, length, tx_sequence, data),
                  todo |-> frame_head(type, length), phase |-> "head",
                  handed |-> <<>>, tmp |-> 0]
    /\ m_n' = m_n + 1
    /\ UNCHANGED <<uart_tx_buffer, uart_rx_buffer, UDRE0, UDR0, UDRIE0, wire,
                   tx_sequence, rx, sends, acks, nacks, dispatched, n_sent,
                   h_in, h_n>>
    /\ UNCHANGED commOthers

\* uart_send_byte line 107: UCSR0A & (1 << UDRE0)
MainL107 ==
    /\ m.pc = "L107"
    /\ m' = [m EXCEPT !.pc = IF UDRE0 THEN "L107e" ELSE "L119"]
    /\ UNCHANGED <<uart_tx_buffer, uart_rx_buffer, UDRE0, UDR0, UDRIE0, wire,
                   tx_sequence, rx, sends, acks, nacks, dispatched, n_sent,
                   h_in, h_n, m_n>>
    /\ UNCHANGED commOthers

\* uart_send_byte line 107: ringbuffer_empty(&uart_tx_buffer)
MainL107Empty ==
    /\ m.pc = "L107e"
    /\ m' = [m EXCEPT !.pc = IF ringbuffer_empty(uart_tx_buffer) THEN "L108" ELSE "L119"]
    /\ UNCHANGED <<uart_tx_buffer, uart_rx_buffer, UDRE0, UDR0, UDRIE0, wire,
                   tx_sequence, rx, sends, acks, nacks, dispatched, n_sent,
                   h_in, h_n, m_n>>
    /\ UNCHANGED commOthers

\* comm_send_packet after a uart_send_byte that returned true: the next byte
\* of the field, or the next statement
byte_sent(mm) ==
    LET h == Append(mm.handed, Head(mm.todo))
        rest == Tail(mm.todo)
    IN IF rest # <<>>
       THEN [mm EXCEPT !.todo = rest, !.handed = h, !.pc = "L107"]
       ELSE CASE mm.phase = "head" ->
                   [mm EXCEPT !.todo = rest, !.handed = h, !.pc = "L172a"]
              [] mm.phase = "seqesc" ->
                   [mm EXCEPT !.todo = rest, !.handed = h, !.pc = "L174"]
              [] mm.phase = "seq" ->
                   [mm EXCEPT !.todo = frame_tail(mm.data, mm.length, mm.crc),
                              !.handed = h, !.phase = "tail", !.pc = "L107"]
              [] mm.phase = "tail" ->
                   [mm EXCEPT !.todo = rest, !.handed = h, !.pc = "L208"]

\* uart_send_byte line 108: UDR0 = data; the transmitter ignores a write
\* while its data register is not empty
MainL108 ==
    /\ m.pc = "L108"
    /\ IF UDRE0
       THEN UDR0' = Head(m.todo) /\ UDRE0' = FALSE
       ELSE UNCHANGED <<UDR0, UDRE0>>
    /\ m' = byte_sent(m)
    /\ UNCHANGED <<uart_tx_buffer, uart_rx_buffer, UDRIE0, wire,
                   tx_sequence, rx, sends, acks, nacks, dispatched, n_sent,
                   h_in, h_n, m_n>>
    /\ UNCHANGED commOthers

\* uart_send_byte lines 116 .. 129, interrupts off: push, enable the
\* data-register-empty interrupt for the first queued byte; a full buffer
\* makes comm_send_packet return false
MainL119 ==
    /\ m.pc = "L119"
    /\ LET p == ringbuffer_push(uart_tx_buffer, Head(m.todo)) IN
         /\ uart_tx_buffer' = p.rb
         /\ UDRIE0' = (UDRIE0 \/ (p.ret /\ ringbuffer_count(p.rb) = 1))
         /\ IF p.ret
            THEN m' = byte_sent(m) /\ UNCHANGED sends
            ELSE /\ m' = m_idle
                 /\ sends' = Append(sends, SendRecord("main", m.type, m.data,
                                                      m.sequence, FALSE, m.handed))
    /\ UNCHANGED <<uart_rx_buffer, UDRE0, UDR0, wire,
                   tx_sequence, rx, acks, nacks, dispatched, n_sent,
                   h_in, h_n, m_n>>
    /\ UNCHANGED commOthers

\* comm_send_packet line 172: tx_sequence == COMM_SYNC_BYTE
MainL172a ==
    /\ m.pc = "L172a"
    /\ m' = IF tx_sequence = COMM_SYNC_BYTE
            THEN [m EXCEPT !.todo = <<COMM_ESCAPE_BYTE>>, !.phase = "seqesc", !.pc = "L107"]
            ELSE [m EXCEPT !.pc = "L172b"]
    /\ UNCHANGED <<uart_tx_buffer, uart_rx_buffer, UDRE0, UDR0, UDRIE0, wire,
                   tx_sequence, rx, sends, acks, nacks, dispatched, n_sent,
                   h_in, h_n, m_n>>
    /\ UNCHANGED commOthers

\* comm_send_packet line 172: tx_sequence == COMM_ESCAPE_BYTE
MainL172b ==
    /\ m.pc = "L172b"
    /\ m' = IF tx_sequence = COMM_ESCAPE_BYTE
            THEN [m EXCEPT !.todo = <<COMM_ESCAPE_BYTE>>, !.phase = "seqesc", !.pc = "L107"]
            ELSE [m EXCEPT !.pc = "L176"]
    /\ UNCHANGED <<uart_tx_buffer, uart_rx_buffer, UDRE0, UDR0, UDRIE0, wire,
                   tx_sequence, rx, sends, acks, nacks, dispatched, n_sent,
                   h_in, h_n, m_n>>
    /\ UNCHANGED commOthers

\* comm_send_packet line 174: the argument tx_sequence ^ 0xFF
MainL174 ==
    /\ m.pc = "L174"
    /\ m' = [m EXCEPT !.todo = <<Xor8(tx_sequence, 255)>>, !.phase = "seq", !.pc = "L107"]
    /\ UNCHANGED <<uart_tx_buffer, uart_rx_buffer, UDRE0, UDR0, UDRIE0, wire,
                   tx_sequence, rx, sends, acks, nacks, dispatched, n_sent,
                   h_in, h_n, m_n>>
    /\ UNCHANGED commOthers

\* comm_send_packet line 176: the argument tx_sequence
MainL176 ==
    /\ m.pc = "L176"
    /\ m' = [m EXCEPT !.todo = <<tx_sequence>>, !.phase = "seq", !.pc = "L107"]
    /\ UNCHANGED <<uart_tx_buffer, uart_rx_buffer, UDRE0, UDR0, UDRIE0, wire,
                   tx_sequence, rx, sends, acks, nacks, dispatched, n_sent,
                   h_in, h_n, m_n>>
    /\ UNCHANGED commOthers

\* comm_send_packet line 208, tx_sequence++: the load
MainL208Load ==
    /\ m.pc = "L208"
    /\ m' = [m EXCEPT !.tmp = tx_sequence, !.pc = "L208s"]
    /\ UNCHANGED <<uart_tx_buffer, uart_rx_buffer, UDRE0, UDR0, UDRIE0, wire,
                   tx_sequence, rx, sends, acks, nacks, dispatched, n_sent,
                   h_in, h_n, m_n>>
    /\ UNCHANGED commOthers

\* comm_send_packet line 208, tx_sequence++: the store, and return true
MainL208Store ==
    /\ m.pc = "L208s"
    /\ tx_sequence' = U8(m.tmp + 1)
    /\ n_sent' = n_sent + 1
    /\ sends' = Append(sends, SendRecord("main", m.type, m.data, m.sequence,
                                         TRUE, m.handed))
    /\ m' = m_idle
    /\ UNCHANGED <<uart_tx_buffer, uart_rx_buffer, UDRE0, UDR0, UDRIE0, wire,
                   rx, acks, nacks, dispatched, h_in, h_n, m_n>>
    /\ UNCHANGED commOthers

\* the host starts a frame
HostFrame ==
    /\ h_in = <<>>
    /\ h_n < MaxRxFrames
    /\ h_in' \in HostFrames
    /\ h_n' = h_n + 1
    /\ UNCHANGED <<uart_tx_buffer, uart_rx_buffer, UDRE0, UDR0, UDRIE0, wire,
                   tx_sequence, rx, m, sends, acks, nacks, dispatched, n_sent, m_n>>
    /\ UNCHANGED commOthers

\* bytes the transmitter may take out of UDR0 while a receive interrupt runs;
\* it matters only to an interrupt that sends
IsrHwMoves ==
    IF rx.rx_state = "CRC_LOW"
    THEN 0 .. (IF Len(wire) + IsrFrameMax <= MaxLinkBytes
               THEN IsrFrameMax ELSE MaxLinkBytes - Len(wire))
    ELSE {0}

\* ISR(USART_RX_vect)
RxIsr ==
    /\ h_in # <<>>
    /\ \E hw \in IsrHwMoves :
         LET data == Head(h_in)
             t == [tx |-> uart_tx_buffer, udre |-> UDRE0, udr |-> UDR0,
                   udrie |-> UDRIE0, wire |-> wire, hw |-> hw,
                   tx_sequence |-> tx_sequence, n_sent |-> n_sent,
                   sends |-> sends, acks |-> acks, nacks |-> nacks,
                   dispatched |-> dispatched, ret |-> TRUE, handed |-> <<>>]
         IN \E p \in {process_rx_byte(rx, t, data)} :
            /\ rx' = p.r
            /\ uart_tx_buffer' = p.t.tx
            /\ UDRE0' = p.t.udre
            /\ UDR0' = p.t.udr
            /\ UDRIE0' = p.t.udrie
            /\ wire' = p.t.wire
            /\ tx_sequence' = p.t.tx_sequence
            /\ n_sent' = p.t.n_sent
            /\ sends' = p.t.sends
            /\ acks' = p.t.acks
            /\ nacks' = p.t.nacks
            /\ dispatched' = p.t.dispatched
            /\ uart_rx_buffer' = ringbuffer_push(uart_rx_buffer, data).rb
    /\ h_in' = Tail(h_in)
    /\ UNCHANGED <<m, h_n, m_n>>
    /\ UNCHANGED commOthers

\* ISR(USART_UDRE_vect): runs when the interrupt is enabled and UDR0 is empty
UdreIsr ==
    /\ UDRIE0
    /\ UDRE0
    /\ LET p == ringbuffer_pop(uart_tx_buffer, 0) IN
         /\ uart_tx_buffer' = p.rb
         /\ IF p.ret
            THEN UDR0' = p.data /\ UDRE0' = FALSE /\ UNCHANGED UDRIE0
            ELSE UDRIE0' = FALSE /\ UNCHANGED <<UDR0, UDRE0>>
    /\ UNCHANGED <<uart_rx_buffer, wire, tx_sequence, rx, m, sends, acks, nacks,
                   dispatched, n_sent, h_in, h_n, m_n>>
    /\ UNCHANGED commOthers

\* the transmitter moves the byte in UDR0 onto the link and raises UDRE0
UartShift ==
    /\ ~UDRE0
    /\ Len(wire) < MaxLinkBytes
    /\ wire' = Append(wire, UDR0)
    /\ UDRE0' = TRUE
    /\ UNCHANGED <<uart_tx_buffer, uart_rx_buffer, UDR0, UDRIE0, tx_sequence, rx, m,
                   sends, acks, nacks, dispatched, n_sent, h_in, h_n, m_n>>
    /\ UNCHANGED commOthers

CommNext ==
    \/ MainCall
    \/ MainL107
    \/ MainL107Empty
    \/ MainL108
    \/ MainL119
    \/ MainL172a
    \/ MainL172b
    \/ MainL174
    \/ MainL176
    \/ MainL208Load
    \/ MainL208Store
    \/ HostFrame
    \/ RxIsr
    \/ UdreIsr
    \/ UartShift

CommSpecInit == CommInit /\ RbIdle /\ SpIdle /\ EscIdle /\ CrcIdle /\ LoopIdle /\ ProgIdle /\ DecIdle /\ TrkIdle /\ BusIdle /\ WdtIdle /\ PollIdle /\ FsmIdle /\ SigIdle /\ EnIdle /\ TimeIdle /\ CapIdle

SpecComm == CommSpecInit /\ [][CommNext]_vars

(***************************************************************************)
(* SpecRx: the receive path alone.  The main loop sends nothing; what it   *)
(* may have queued before is the backlog the run starts with.              *)
(***************************************************************************)
RxNext ==
    \/ HostFrame
    \/ RxIsr
    \/ UdreIsr
    \/ UartShift

SpecRx == CommSpecInit /\ [][RxNext]_vars

\* the frame the claims expect of a call: every field escaped on its own, the
\* sequence number of the time of the call, the CRC over the unescaped fields
ExpectedFrame(s) ==
    frame_bytes(s.type, s.data, Len(s.data), s.sequence,
                header_crc(s.type, Len(s.data), s.sequence, s.data))

(***************************************************************************)
(* C7: a call of comm_send_packet that returns true has handed to the link *)
(* exactly 0xAA, then type, length, the sequence number of the time of the *)
(* call, the data and the CRC over these unescaped fields, high byte       *)
(* first, each escaped on its own.                                         *)
(***************************************************************************)
C7_FrameBytes ==
    \A i \in DOMAIN sends :
        sends[i].ret => sends[i].handed = ExpectedFrame(sends[i])

(***************************************************************************)
(* C8: in the bytes one call of comm_send_packet emits, 0xAA occurs only   *)
(* as the first byte.                                                      *)
(***************************************************************************)
C8_SyncOnlyFirst ==
    /\ \A i \in DOMAIN sends :
           \A k \in 2 .. Len(sends[i].handed) : sends[i].handed[k] # COMM_SYNC_BYTE
    /\ \A k \in 2 .. Len(m.handed) : m.handed[k] # COMM_SYNC_BYTE

(***************************************************************************)
(* C9: the transmit sequence number is 0 after comm_init, goes up by one   *)
(* modulo 256 with every call of comm_send_packet that returns true and    *)
(* stays as it is when a call returns false: between calls it is the       *)
(* number of successful calls modulo 256.                                  *)
(***************************************************************************)
C9_SequenceCounts ==
    m.pc = "idle" => tx_sequence = U8(n_sent)

\* a step of the receive interrupt in which process_rx_byte takes the CRC low
\* byte: the state machine is in CRC_LOW and the byte is not an escape prefix
RxAtCrcLow ==
    /\ rx.rx_state = "CRC_LOW"
    /\ h_in # <<>>
    /\ h_in' = Tail(h_in)
    /\ rx.escape_next \/ Head(h_in) # COMM_ESCAPE_BYTE

\* the CRC the frame carried: the high byte kept in CRC_HIGH, the low byte
\* arriving now
ReceivedCrc ==
    Or16(rx.rx_packet.crc,
         IF rx.escape_next THEN Xor8(Head(h_in), 255) ELSE Head(h_in))

\* the CRC over the collected type, length, sequence and data
CollectedCrc ==
    header_crc(rx.rx_packet.type, rx.rx_packet.length, rx.rx_packet.sequence,
               rx.rx_packet.data)

CrcFailureNacks(log) ==
    Cardinality({i \in DOMAIN log : log[i].error = ERR_CRC_FAILURE})

\* what both readings of C10 share: the verdict, the delivery, the one call
\* of comm_send_nack and the state afterwards
CrcVerdict ==
    /\ rx'.rx_state = "WAIT_SYNC"
    /\ IF CollectedCrc = ReceivedCrc
       THEN /\ dispatched' = Append(dispatched,
                                    Delivered([rx.rx_packet EXCEPT !.crc = ReceivedCrc]))
            /\ CrcFailureNacks(nacks') = CrcFailureNacks(nacks)
       ELSE /\ dispatched' = dispatched
            /\ nacks' = Append(nacks, [sequence |-> rx.rx_packet.sequence,
                                       error |-> ERR_CRC_FAILURE])
            /\ Len(sends') = Len(sends) + 1
            /\ sends'[Len(sends')].type = PACKET_TYPE_NACK
            /\ sends'[Len(sends')].data = <<rx.rx_packet.sequence, ERR_CRC_FAILURE>>

C34_FramesWhole ==
    [][(m.pc # "idle" /\ m.handed # <<>> /\ m' = m /\ Len(sends') > Len(sends))
          => sends'[Len(sends')].handed = <<>>]_vars

\* C35: a call of comm_send_packet that returns false has handed no byte to
\* the link
C35_AllOrNothing ==
    \A i \in DOMAIN sends : ~sends[i].ret => sends[i].handed = <<>>

\* the bytes on their way: on the link, in UDR0, and queued in uart_tx_buffer
InFlight ==
    Len(wire) + (IF UDRE0 THEN 0 ELSE 1) + ringbuffer_count(uart_tx_buffer)

\* the bytes uart_send_byte has accepted in the calls logged in s
RECURSIVE AcceptedIn(_)
AcceptedIn(s) ==
    IF s = <<>> THEN 0 ELSE Len(Head(s).handed) + AcceptedIn(Tail(s))

Accepted == AcceptedIn(sends) + Len(m.handed)

\* C36: the data-register-empty interrupt is enabled whenever uart_tx_buffer
\* is not empty, and every step that accepts bytes in uart_send_byte puts as
\* many on their way to the link: none is dropped and none is written twice
C36_AcceptedBytesSent ==
    [][/\ (~ringbuffer_empty(uart_tx_buffer')) => UDRIE0'
       /\ InFlight' - InFlight = Accepted' - Accepted]_vars

(***************************************************************************)
(* SpecLoop: a frame as an uninterrupted comm_send_packet hands it to the  *)
(* link is fed, byte by byte, to the receive interrupt of a device with an *)
(* idle transmitter and the receive state machine in WAIT_SYNC.            *)
(***************************************************************************)
MaxLoopSmall == 2
LoopBytes == {0, COMM_ESCAPE_BYTE, COMM_SYNC_BYTE}
LoopTypes == {PACKET_TYPE_CMD_GET_STATUS, COMM_ESCAPE_BYTE, COMM_SYNC_BYTE,
              PACKET_TYPE_STATUS_REPORT}
LoopSeqs == {0, COMM_ESCAPE_BYTE, COMM_SYNC_BYTE, 255}
\* payloads whose length byte is escaped, and the longest ones
LoopLong ==
    {Repeat(<<1>>, COMM_ESCAPE_BYTE), Repeat(<<1>>, COMM_SYNC_BYTE),
     Repeat(<<0>>, COMM_MAX_PACKET_SIZE - 1),
     Repeat(<<COMM_SYNC_BYTE>>, COMM_MAX_PACKET_SIZE),
     Repeat(<<7, COMM_ESCAPE_BYTE>>, COMM_MAX_PACKET_SIZE)}
LoopData == UNION {[1 .. n -> LoopBytes] : n \in 0 .. MaxLoopSmall} \cup LoopLong

LoopInit ==
    /\ enc \in [type : LoopTypes, sequence : LoopSeqs, data : LoopData]
    /\ h_in = frame_bytes(enc.type, enc.data, Len(enc.data), enc.sequence,
                          header_crc(enc.type, Len(enc.data), enc.sequence, enc.data))
    /\ h_n = MaxRxFrames
    /\ uart_tx_buffer = ringbuffer_init(ringbuffer_t)
    /\ uart_rx_buffer = ringbuffer_init(ringbuffer_t)
    /\ UDRE0 = TRUE
    /\ UDRIE0 = FALSE
    /\ UDR0 = 0
    /\ wire = <<>>
    /\ n_sent = 0
    /\ tx_sequence = 0
    /\ rx = rx_init
    /\ m = m_idle
    /\ sends = <<>>
    /\ acks = <<>>
    /\ nacks = <<>>
    /\ dispatched = <<>>
    /\ m_n = 0

LoopNext ==
    \/ RxIsr
    \/ UdreIsr
    \/ UartShift

LoopSpecInit == LoopInit /\ RbIdle /\ SpIdle /\ EscIdle /\ CrcIdle /\ ProgIdle /\ DecIdle /\ TrkIdle /\ BusIdle /\ WdtIdle /\ PollIdle /\ FsmIdle /\ SigIdle /\ EnIdle /\ TimeIdle /\ CapIdle

SpecLoop == LoopSpecInit /\ [][LoopNext]_vars

(***************************************************************************)
(* C11: when the receive state machine, started in WAIT_SYNC, has taken    *)
(* every byte of the frame the encoder makes of a type, a sequence number  *)
(* and a payload of 0 .. 255 bytes, the received packet holds that type,   *)
(* length, sequence number and payload, the CRC recomputed over them is    *)
(* the received CRC, and the state machine is in WAIT_SYNC again.          *)
(***************************************************************************)
C11_LoopBack ==
    h_in = <<>> =>
        /\ rx.rx_state = "WAIT_SYNC"
        /\ ~rx.escape_next
        /\ rx.rx_packet.type = enc.type
        /\ rx.rx_packet.length = Len(enc.data)
        /\ rx.rx_packet.sequence = enc.sequence
        /\ SubSeq(rx.rx_packet.data, 1, Len(enc.data)) = enc.data
        /\ packet_crc(rx.rx_packet) = rx.rx_packet.crc
        /\ Len(dispatched) = 1

C11_Witness ==
    /\ h_in = <<>>
    /\ Len(enc.data) = COMM_MAX_PACKET_SIZE
    /\ enc.data[1] = COMM_SYNC_BYTE
    /\ enc.type = COMM_ESCAPE_BYTE
    /\ enc.sequence = COMM_SYNC_BYTE
    /\ rx.rx_packet.data[COMM_MAX_PACKET_SIZE] = COMM_SYNC_BYTE
    /\ dispatched # <<>>

(***************************************************************************)
(* SpecCorrupt: the frame of SpecLoop with one byte of its payload part    *)
(* replaced by a different value on the way to the receive interrupt.      *)
(***************************************************************************)
MaxCorruptLen == 2
CorruptTypes == {PACKET_TYPE_CMD_GET_STATUS}
CorruptSeqs == {7, COMM_ESCAPE_BYTE}
CorruptData == UNION {[1 .. n -> LoopBytes] : n \in 1 .. MaxCorruptLen}
\* the values a damaged byte may take
CorruptBytes == {0, 1, COMM_ESCAPE_BYTE, COMM_SYNC_BYTE, 255}

\* where the payload starts in the transmitted stream, counted from 1
PayloadAt(type, length, sequence) ==
    Len(frame_head(type, length)) + Len(esc(sequence)) + 1

\* the transmitted stream of e with the byte at position e.at replaced
Corrupted(e) ==
    [frame_bytes(e.type, e.data, Len(e.data), e.sequence,
                 header_crc(e.type, Len(e.data), e.sequence, e.data))
     EXCEPT ![e.at] = e.byte]

CorruptInit ==
    /\ \E type \in CorruptTypes, sequence \in CorruptSeqs, data \in CorruptData :
         \E at \in PayloadAt(type, Len(data), sequence)
                    .. PayloadAt(type, Len(data), sequence)
                       + Len(esc_data(data, 0, Len(data))) - 1 :
           \E byte \in CorruptBytes :
             /\ byte # frame_bytes(type, data, Len(data), sequence,
                                   header_crc(type, Len(data), sequence, data))[at]
             /\ enc = [type |-> type, sequence |-> sequence, data |-> data,
                       at |-> at, byte |-> byte]
    /\ h_in = Corrupted(enc)
    /\ h_n = MaxRxFrames
    /\ uart_tx_buffer = ringbuffer_init(ringbuffer_t)
    /\ uart_rx_buffer = ringbuffer_init(ringbuffer_t)
    /\ UDRE0 = TRUE
    /\ UDRIE0 = FALSE
    /\ UDR0 = 0
    /\ wire = <<>>
    /\ n_sent = 0
    /\ tx_sequence = 0
    /\ rx = rx_init
    /\ m = m_idle
    /\ sends = <<>>
    /\ acks = <<>>
    /\ nacks = <<>>
    /\ dispatched = <<>>
    /\ m_n = 0

CorruptSpecInit == CorruptInit /\ RbIdle /\ SpIdle /\ EscIdle /\ CrcIdle /\ ProgIdle /\ DecIdle /\ TrkIdle /\ BusIdle /\ WdtIdle /\ PollIdle /\ FsmIdle /\ SigIdle /\ EnIdle /\ TimeIdle /\ CapIdle

SpecCorrupt == CorruptSpecInit /\ [][LoopNext]_vars

(***************************************************************************)
(* C12: when the receive state machine has taken every byte of a frame in  *)
(* which one byte of the payload was replaced by a different value, it has *)
(* emitted NACK(CRC_FAILURE) and has not delivered the packet to the       *)
(* command dispatcher.                                                     *)
(***************************************************************************)
C12_CorruptNack ==
    h_in = <<>> =>
        /\ dispatched = <<>>
        /\ nacks = <<[sequence |-> enc.sequence, error |-> ERR_CRC_FAILURE]>>

(***************************************************************************)
(* The command handler of the main loop: handle_command_packet (main.c)    *)
(* with usb_monitor_enable, usb_monitor_disable and usb_reset_timestamp    *)
(* (usb_interface.c), next to comm_process_command of the receive          *)
(* interrupt.                                                              *)
(***************************************************************************)

\* program_state_t
STATE_INIT == 0
STATE_IDLE == 1
STATE_MONITORING == 2
STATE_ERROR == 3

\* usb_speed_t
USB_SPEED_LOW == 0
USB_SPEED_FULL == 1
USB_SPEED_HIGH == 2

\* usb_state_t
USB_STATE_DETACHED == 0
USB_STATE_ATTACHED == 1
USB_STATE_POWERED == 2
USB_STATE_DEFAULT == 3
USB_STATE_ADDRESS == 4
USB_STATE_CONFIGURED == 5
USB_STATE_SUSPENDED == 6

\* transaction_type_t
TRANS_NONE == 0
TRANS_CONTROL_SETUP == 1
TRANS_CONTROL_DATA == 2
TRANS_CONTROL_STATUS == 3
TRANS_BULK_IN == 4
TRANS_BULK_OUT == 5
TRANS_INTERRUPT_IN == 6
TRANS_INTERRUPT_OUT == 7
TRANS_ISOCHRONOUS == 8

USB_MAX_PACKET_SIZE == 64

\* default_config as main.c initialises it (and main() again, lines 252-260)
default_config_init ==
    [speed |-> USB_SPEED_FULL, capture_control |-> TRUE, capture_bulk |-> TRUE,
     capture_interrupt |-> TRUE, capture_isoc |-> TRUE, addr_filter |-> 0,
     ep_filter |-> 0, filter_in |-> FALSE, filter_out |-> FALSE]

\* a usb_monitor_config_t in static storage before anything is copied into it
usb_monitor_config_zero ==
    [speed |-> 0, capture_control |-> FALSE, capture_bulk |-> FALSE,
     capture_interrupt |-> FALSE, capture_isoc |-> FALSE, addr_filter |-> 0,
     ep_filter |-> 0, filter_in |-> FALSE, filter_out |-> FALSE]

\* sizeof(usb_monitor_config_t) with avr-gcc: the enum takes an int of two
\* bytes, each bool and uint8_t one byte
sizeof_usb_monitor_config_t == 10

\* memcpy(&config, packet->data, sizeof(usb_monitor_config_t)): the bytes of
\* data laid over the fields, the enum little-endian
config_from_bytes(data) ==
    [speed |-> data[1] + 256 * data[2],
     capture_control |-> data[3] # 0, capture_bulk |-> data[4] # 0,
     capture_interrupt |-> data[5] # 0, capture_isoc |-> data[6] # 0,
     addr_filter |-> data[7], ep_filter |-> data[8],
     filter_in |-> data[9] # 0, filter_out |-> data[10] # 0]

\* the statics of main.c after the initialisation in main()
prog_init ==
    [current_state |-> STATE_IDLE, default_config |-> default_config_init,
     buffer_usage |-> 0, usb_reset_flag |-> FALSE, error_code |-> 0]

\* a uint32_t timestamp, (hi << 16) | lo, kept as its two 16-bit halves
timestamp_zero == [hi |-> 0, lo |-> 0]

\* a - b on uint32_t timestamps
timestamp_diff(a, b) ==
    [hi |-> U16(65536 + a.hi - b.hi - (IF a.lo < b.lo THEN 1 ELSE 0)),
     lo |-> U16(65536 + a.lo - b.lo)]

\* a > n for a timestamp difference a and a constant n below 65536
timestamp_over_or_equal(a, n) == a.hi > 0 \/ a.lo >= n

timestamp_over(a, n) == a.hi > 0 \/ a.lo > n

\* the statics of usb_interface.c after usb_init, no bus power seen, with
\* the statics of ISR(INT0_vect); packet_data_buffer[i] of the source is
\* packet_data_buffer[i + 1] here
usb_statics ==
    [usb_state |-> USB_STATE_DETACHED, monitor_config |-> usb_monitor_config_zero,
     monitoring_enabled |-> FALSE, bus_reset_detected |-> FALSE,
     connected_devices |-> 0, packet_in_progress |-> FALSE, current_pid |-> 0,
     timestamp_counter |-> 0, TCNT1 |-> 0,
     usb_packet_buffer |-> ringbuffer_init(ringbuffer_t),
     usb_event_buffer |-> ringbuffer_init(ringbuffer_t),
     packet_data_buffer |-> [i \in 1 .. USB_MAX_PACKET_SIZE |-> 0],
     packet_data_length |-> 0,
     last_dp_state |-> FALSE, last_dm_state |-> FALSE,
     last_edge_time |-> timestamp_zero, bit_count |-> 0, current_byte |-> 0,
     sync_detected |-> FALSE,
     last_token_pid |-> 0, last_token_addr |-> 0, last_token_endp |-> 0,
     last_token_time |-> timestamp_zero, transaction_in_progress |-> FALSE,
     current_transaction |-> TRANS_NONE]

usb_reset_timestamp(u) == [u EXCEPT !.timestamp_counter = 0, !.TCNT1 = 0]

\* both branches on config->speed write the same bits to EICRA
usb_monitor_enable(u, config) ==
    LET u1 == usb_reset_timestamp([u EXCEPT !.monitor_config = config]) IN
    [u1 EXCEPT !.usb_packet_buffer = ringbuffer_reset(@),
               !.usb_event_buffer = ringbuffer_reset(@),
               !.last_token_pid = 0, !.last_token_addr = 0, !.last_token_endp = 0,
               !.last_token_time = timestamp_zero, !.transaction_in_progress = FALSE,
               !.current_transaction = TRANS_NONE,
               !.monitoring_enabled = TRUE]

\* mutant: monitoring_enabled is left as it is
usb_monitor_disable_missing(u) == u

usb_monitor_disable(u) == [u EXCEPT !.monitoring_enabled = FALSE]

usb_get_device_count(u) == u.connected_devices

comm_send_status_report(t, device_count, capture_state, buffer_usage) ==
    comm_send_packet(t, PACKET_TYPE_STATUS_REPORT,
                     status_data(device_count, capture_state, buffer_usage), 4)

\* handle_command_packet: p the statics of main.c, u those of
\* usb_interface.c, t the transmit state; the frames it sends are taken in
\* one piece here (a send cut by an interrupt is followed in SpecComm)
handle_command_packet(p, u, t, packet) ==
    CASE packet.type = PACKET_TYPE_CMD_RESET ->
           [p |-> [p EXCEPT !.current_state = STATE_IDLE],
            u |-> usb_monitor_disable(u),
            t |-> comm_send_ack(t, packet.sequence)]
      [] packet.type = PACKET_TYPE_CMD_START_CAPTURE ->
           [p |-> [p EXCEPT !.current_state = STATE_MONITORING],
            u |-> IF packet.length >= sizeof_usb_monitor_config_t
                  THEN usb_monitor_enable(u, config_from_bytes(packet.data))
                  ELSE usb_monitor_enable(u, p.default_config),
            t |-> comm_send_ack(t, packet.sequence)]
      [] packet.type = PACKET_TYPE_CMD_STOP_CAPTURE ->
           [p |-> [p EXCEPT !.current_state = STATE_IDLE],
            u |-> usb_monitor_disable(u),
            t |-> comm_send_ack(t, packet.sequence)]
      [] packet.type = PACKET_TYPE_CMD_SET_FILTER ->
           LET p1 == IF packet.length >= sizeof_usb_monitor_config_t
                     THEN [p EXCEPT !.default_config = config_from_bytes(packet.data)]
                     ELSE p
           IN [p |-> p1,
               u |-> IF packet.length >= sizeof_usb_monitor_config_t
                        /\ p.current_state = STATE_MONITORING
                     THEN usb_monitor_enable(u, p1.default_config)
                     ELSE u,
               t |-> comm_send_ack(t, packet.sequence)]
      [] packet.type = PACKET_TYPE_CMD_GET_STATUS ->
           LET device_count == usb_get_device_count(u)
               capture_state == IF p.current_state = STATE_MONITORING THEN 1 ELSE 0
           IN [p |-> p, u |-> u,
               t |-> comm_send_ack(
                         comm_send_status_report(t, device_count, capture_state,
                                                 p.buffer_usage),
                         packet.sequence)]
      [] packet.type = PACKET_TYPE_CMD_SET_TIMESTAMP ->
           [p |-> p,
            u |-> IF packet.length >= 4 THEN usb_reset_timestamp(u) ELSE u,
            t |-> comm_send_ack(t, packet.sequence)]
      [] OTHER ->
           [p |-> p, u |-> u,
            t |-> comm_send_nack(t, packet.sequence, ERR_INVALID_COMMAND)]

\* the types the protocol numbers as commands
CommandTypes ==
    {PACKET_TYPE_CMD_RESET, PACKET_TYPE_CMD_START_CAPTURE,
     PACKET_TYPE_CMD_STOP_CAPTURE, PACKET_TYPE_CMD_SET_FILTER,
     PACKET_TYPE_CMD_GET_STATUS, PACKET_TYPE_CMD_SET_TIMESTAMP,
     PACKET_TYPE_CMD_SET_CONFIG}

MaxCommands == 2

\* a configuration the host sends: low speed, control transfers only,
\* address 5, endpoint 1, IN filtered
CmdConfigBytes == <<0, 0, 1, 0, 0, 0, 5, 1, 1, 0>>

CmdSequence == 9

\* the packets comm_receive_packet hands to the main loop
CmdPacket(type, data) ==
    [type |-> type, length |-> Len(data), sequence |-> CmdSequence, data |-> data,
     crc |-> header_crc(type, Len(data), CmdSequence, data)]

CmdPackets ==
    {CmdPacket(PACKET_TYPE_CMD_RESET, <<>>),
     CmdPacket(PACKET_TYPE_CMD_START_CAPTURE, <<>>),
     CmdPacket(PACKET_TYPE_CMD_START_CAPTURE, CmdConfigBytes),
     CmdPacket(PACKET_TYPE_CMD_STOP_CAPTURE, <<>>),
     CmdPacket(PACKET_TYPE_CMD_SET_FILTER, CmdConfigBytes),
     CmdPacket(PACKET_TYPE_CMD_GET_STATUS, <<>>),
     CmdPacket(PACKET_TYPE_CMD_SET_TIMESTAMP, <<0, 0, 0, 1>>),
     CmdPacket(PACKET_TYPE_CMD_SET_CONFIG, <<>>),
     CmdPacket(0, <<>>),
     CmdPacket(PACKET_TYPE_STATUS_REPORT, <<1>>)}

\* the frames the host sends to the receive interrupt: types outside the
\* commands, the first and the last command
CmdFrames ==
    {host_frame(type, <<>>, seq, 0) :
        type \in {0, 8, PACKET_TYPE_NACK, 255, PACKET_TYPE_CMD_RESET,
                  PACKET_TYPE_CMD_SET_CONFIG},
        seq \in {3}}

CmdInit ==
    /\ uart_tx_buffer = ringbuffer_init(ringbuffer_t)
    /\ uart_rx_buffer = ringbuffer_init(ringbuffer_t)
    /\ UDRE0 = TRUE
    /\ UDRIE0 = FALSE
    /\ UDR0 = 0
    /\ wire = <<>>
    /\ n_sent = 0
    /\ tx_sequence = 0
    /\ rx = rx_init
    /\ m = m_idle
    /\ sends = <<>>
    /\ acks = <<>>
    /\ nacks = <<>>
    /\ dispatched = <<>>
    /\ h_in \in CmdFrames
    /\ h_n = MaxRxFrames
    /\ m_n = 0
    /\ prog = prog_init
    /\ usb = [usb_statics EXCEPT !.timestamp_counter = 2, !.TCNT1 = 1000]
    /\ handled = <<>>
    /\ cmd_n = 0
    /\ enc = Absent

\* one pass of the main loop that finds a packet: main.c lines 284-287
MainCommand ==
    /\ cmd_n < MaxCommands
    /\ \E packet \in CmdPackets :
         LET t == [tx |-> uart_tx_buffer, udre |-> UDRE0, udr |-> UDR0,
                   udrie |-> UDRIE0, wire |-> wire, hw |-> 0,
                   tx_sequence |-> tx_sequence, n_sent |-> n_sent,
                   sends |-> sends, acks |-> acks, nacks |-> nacks,
                   dispatched |-> dispatched, ret |-> TRUE, handed |-> <<>>]
         IN \E r \in {handle_command_packet(prog, usb, t, packet)} :
            /\ prog' = r.p
            /\ usb' = r.u
            /\ uart_tx_buffer' = r.t.tx
            /\ UDRE0' = r.t.udre
            /\ UDR0' = r.t.udr
            /\ UDRIE0' = r.t.udrie
            /\ wire' = r.t.wire
            /\ tx_sequence' = r.t.tx_sequence
            /\ n_sent' = r.t.n_sent
            /\ sends' = r.t.sends
            /\ acks' = r.t.acks
            /\ nacks' = r.t.nacks
            /\ handled' = Append(handled, packet)
    /\ cmd_n' = cmd_n + 1
    /\ UNCHANGED <<uart_rx_buffer, rx, m, dispatched, h_in, h_n, m_n>>
    /\ UNCHANGED cmdOthers

CmdNext == MainCommand \/ RxIsr

CmdSpecInit == CmdInit /\ RbIdle /\ SpIdle /\ EscIdle /\ CrcIdle /\ DecIdle /\ TrkIdle /\ BusIdle /\ WdtIdle /\ PollIdle /\ FsmIdle /\ SigIdle /\ EnIdle /\ TimeIdle /\ CapIdle

SpecCmd == CmdSpecInit /\ [][CmdNext]_vars

\* the packet a step hands to a dispatcher, and which one: handle_command_packet
\* in the main loop, comm_process_command in the receive interrupt
StepHandles(packet) ==
    \/ handled' = Append(handled, packet) /\ dispatched' = dispatched
    \/ dispatched' = Append(dispatched, packet) /\ handled' = handled

\* C13: a step that hands a packet with a type outside 0x01..0x07 to either
\* dispatcher makes exactly one call of comm_send_nack, with the packet's
\* sequence number and INVALID_COMMAND, makes no call of comm_send_ack, and
\* leaves the program state, the monitoring-enabled flag, the monitoring
\* configuration and the default configuration as they were
C13_UnknownType ==
    [][\A packet \in {Delivered(q1) : q1 \in CmdPackets}
                     \cup {Delivered(rx'.rx_packet)} :
         (StepHandles(packet) /\ packet.type \notin CommandTypes) =>
            /\ nacks' = Append(nacks, [sequence |-> packet.sequence,
                                       error |-> ERR_INVALID_COMMAND])
            /\ acks' = acks
            /\ prog' = prog
            /\ usb' = usb]_vars

\* both dispatchers have refused a packet of unknown type while monitoring
C13_Witness ==
    /\ \E i \in 1 .. Len(handled) : handled[i].type \notin CommandTypes
    /\ \E i \in 1 .. Len(dispatched) : dispatched[i].type \notin CommandTypes
    /\ prog.current_state = STATE_MONITORING
    /\ usb.monitoring_enabled
    /\ Len(nacks) >= 2

\* C33: a step that hands a packet of one of the seven command types to
\* either dispatcher makes exactly one call of comm_send_ack, with the
\* packet's sequence number, and no call of comm_send_nack
C33_CommandsAcked ==
    [][\A packet \in {Delivered(q1) : q1 \in CmdPackets}
                     \cup {Delivered(rx'.rx_packet)} :
         (StepHandles(packet) /\ packet.type \in CommandTypes) =>
            /\ acks' = Append(acks, packet.sequence)
            /\ nacks' = nacks]_vars


(***************************************************************************)
(* The USB packet decoder: usb_protocol.c                                  *)
(***************************************************************************)

\* usb_pid_t
USB_PID_OUT == 225
USB_PID_IN == 105
USB_PID_SOF == 165
USB_PID_SETUP == 45
USB_PID_DATA0 == 195
USB_PID_DATA1 == 75
USB_PID_ACK == 210
USB_PID_NAK == 90
USB_PID_STALL == 30

usb_is_token_packet(pid) ==
    pid = USB_PID_OUT \/ pid = USB_PID_IN \/ pid = USB_PID_SETUP \/ pid = USB_PID_SOF

usb_is_data_packet(pid) == pid = USB_PID_DATA0 \/ pid = USB_PID_DATA1

\* mutant: STALL is not taken for a handshake
usb_is_handshake_packet_no_stall(pid) == pid = USB_PID_ACK \/ pid = USB_PID_NAK

usb_is_handshake_packet(pid) ==
    pid = USB_PID_ACK \/ pid = USB_PID_NAK \/ pid = USB_PID_STALL

\* token_data[0] is token_data[1] here
usb_get_endpoint_from_token(token_data) ==
    Or16(And16(token_data[1], 7) * 2, And16(token_data[2], 128) \div 128)

usb_get_address_from_token(token_data) == And16(token_data[2], 127)

\* the table of usb_protocol.c lines 19-52; crc16_table[i] of the source is
\* usb_crc16_table[i + 1] here
usb_crc16_table ==
    <<0, 32773, 32783, 10, 32795, 30, 20, 32785,
      32819, 54, 60, 32825, 40, 32813, 32807, 34,
      32867, 102, 108, 32873, 120, 32893, 32887, 114,
      80, 32853, 32863, 90, 32843, 78, 68, 32833,
      32963, 198, 204, 32969, 216, 32989, 32983, 210,
      240, 33013, 33023, 250, 33003, 238, 228, 32993,
      160, 32933, 32943, 170, 32955, 190, 180, 32945,
      32915, 150, 156, 32921, 136, 32909, 32903, 130,
      33155, 390, 396, 33161, 408, 33181, 33175, 402,
      432, 33205, 33215, 442, 33195, 430, 420, 33185,
      480, 33253, 33263, 490, 33275, 510, 500, 33265,
      33235, 470, 476, 33241, 456, 33229, 33223, 450,
      320, 33093, 33103, 330, 33115, 350, 340, 33105,
      33139, 374, 380, 33145, 360, 33133, 33127, 354,
      33059, 294, 300, 33065, 312, 33085, 33079, 306,
      272, 33045, 33055, 282, 33035, 270, 260, 33025,
      33539, 774, 780, 33545, 792, 33565, 33559, 786,
      816, 33589, 33599, 826, 33579, 814, 804, 33569,
      864, 33637, 33647, 874, 33659, 894, 884, 33649,
      33619, 854, 860, 33625, 840, 33613, 33607, 834,
      960, 33733, 33743, 970, 33755, 990, 980, 33745,
      33779, 1014, 1020, 33785, 1000, 33773, 33767, 994,
      33699, 934, 940, 33705, 952, 33725, 33719, 946,
      912, 33685, 33695, 922, 33675, 910, 900, 33665,
      640, 33413, 33423, 650, 33435, 670, 660, 33425,
      33459, 694, 700, 33465, 680, 33453, 33447, 674,
      33507, 742, 748, 33513, 760, 33533, 33527, 754,
      720, 33493, 33503, 730, 33483, 718, 708, 33473,
      33347, 582, 588, 33353, 600, 33373, 33367, 594,
      624, 33397, 33407, 634, 33387, 622, 612, 33377,
      544, 33317, 33327, 554, 33339, 574, 564, 33329,
      33299, 534, 540, 33305, 520, 33293, 33287, 514>>

\* one iteration of the loop of usb_calculate_crc16
usb_crc16_step(crc, byte) ==
    Xor16(crc \div 256, usb_crc16_table[And16(Xor16(crc, byte), 255) + 1])

\* the iterations lo .. hi - 1 of the loop, in order; data[i] is data[i + 1]
RECURSIVE usb_crc16_loop(_, _, _, _)
usb_crc16_loop(crc, data, lo, hi) ==
    IF crc > 65535 \/ lo >= hi THEN crc
    ELSE IF hi - lo = 1 THEN usb_crc16_step(crc, data[lo + 1])
    ELSE LET mid == (lo + hi) \div 2 IN
         usb_crc16_loop(usb_crc16_loop(crc, data, lo, mid), data, mid, hi)

\* ~crc, cut to uint16_t
usb_calculate_crc16(data, length) == 65535 - usb_crc16_loop(65535, data, 0, length)

\* the iterations i .. 10 of the loop of usb_calculate_crc5
RECURSIVE crc5_loop(_, _, _)
crc5_loop(crc, data, i) ==
    IF crc > 31 \/ data > 65535 \/ i >= 11 THEN crc
    ELSE crc5_loop(IF And16(Xor16(crc, data), 1) = 1
                   THEN Xor8(crc \div 2, 20)
                   ELSE crc \div 2,
                   data \div 2, i + 1)

usb_calculate_crc5(data) == crc5_loop(31, data, 0)

\* a usb_packet_t; data holds the data_len bytes the pointer refers to, <<>>
\* for NULL
usb_packet_t ==
    [timestamp |-> timestamp_zero, pid |-> 0, endpoint |-> 0, dev_addr |-> 0,
     data_len |-> 0,
     data |-> <<>>, crc_valid |-> FALSE]

\* mutant: the second-to-last byte is taken as the high byte
data_packet_crc_be(data, length) == Or16(U16(data[length - 1] * 256), data[length])

\* packet_crc of usb_decode_packet (line 174): data[length - 1] of the source
\* is data[length] here; the shift is cut to 16 bits
data_packet_crc(data, length) == Or16(U16(data[length] * 256), data[length - 1])

\* usb_decode_packet: the return value and the caller's packet, whose fields
\* keep what they held where the code does not write them
usb_decode_packet(data, length, packet) ==
    IF length < 1 THEN [ret |-> FALSE, packet |-> packet]
    ELSE LET p1 == [packet EXCEPT !.pid = data[1]] IN
         IF usb_is_token_packet(p1.pid)
         THEN IF length < 3 THEN [ret |-> FALSE, packet |-> p1]
              ELSE LET token_data == SubSeq(data, 2, 3)
                       token == And16(Or16(data[2], U16(data[3] * 256)), 2047)
                   IN [ret |-> TRUE,
                       packet |-> [p1 EXCEPT
                           !.dev_addr = usb_get_address_from_token(token_data),
                           !.endpoint = usb_get_endpoint_from_token(token_data),
                           !.crc_valid = (usb_calculate_crc5(token) = data[3] \div 8),
                           !.data = <<>>,
                           !.data_len = 0]]
         ELSE IF usb_is_data_packet(p1.pid)
         THEN IF length < 3 THEN [ret |-> FALSE, packet |-> p1]
              ELSE LET data_len == length - 3 IN
                   IF data_len > 0
                   THEN LET payload == SubSeq(data, 2, 1 + data_len)
                            crc == usb_calculate_crc16(payload, data_len)
                        IN [ret |-> TRUE,
                            packet |-> [p1 EXCEPT
                                !.data_len = data_len,
                                !.data = payload,
                                !.crc_valid = (crc = data_packet_crc(data, length))]]
                   ELSE [ret |-> TRUE,
                         packet |-> [p1 EXCEPT !.data_len = 0, !.data = <<>>,
                                               !.crc_valid = TRUE]]
         ELSE IF usb_is_handshake_packet(p1.pid)
         THEN [ret |-> TRUE,
               packet |-> [p1 EXCEPT !.data = <<>>, !.data_len = 0,
                                     !.crc_valid = TRUE, !.dev_addr = 0,
                                     !.endpoint = 0]]
         ELSE [ret |-> FALSE, packet |-> p1]

(***************************************************************************)
(* SpecDecode: usb_decode_packet applied to raw packets                    *)
(***************************************************************************)

MaxDecodeLen == 3
MaxPayloadLen == 2

TokenPids == {USB_PID_OUT, USB_PID_IN, USB_PID_SETUP, USB_PID_SOF}
DataPids == {USB_PID_DATA0, USB_PID_DATA1}
HandshakePids == {USB_PID_ACK, USB_PID_NAK, USB_PID_STALL}

\* second bytes of a token; 0x01 is the one of the token of the bus for
\* address 5 and endpoint 2
TokenB2 == {0, 1, 5, 127, 133, 248, 255}

DecTokens == {<<pid, b1, b2>> : pid \in TokenPids, b1 \in Byte, b2 \in TokenB2}

\* the token of the bus for an address and an endpoint: the address in the
\* low seven bits, then the endpoint, then the CRC5 of these eleven bits
bus_token(pid, addr, endp) ==
    LET bits == addr + 128 * endp
        crc == usb_calculate_crc5(bits)
    IN <<pid, bits % 256, (bits \div 256) + 8 * crc>>

DecBytes == {0, 1, 255}

DecPayloads == UNION {[1 .. n -> DecBytes] : n \in 0 .. MaxPayloadLen}

\* the two CRC bytes a sender may append to a payload: low byte first, high
\* byte first, and a damaged low byte
DecCrcBytes(payload) ==
    LET crc == usb_calculate_crc16(payload, Len(payload))
        lo == crc % 256
        hi == crc \div 256
    IN {<<lo, hi>>, <<hi, lo>>, <<Xor8(lo, 1), hi>>, <<0, 0>>}

DecData ==
    UNION {{<<pid>> \o payload \o c : pid \in DataPids, c \in DecCrcBytes(payload)} :
             payload \in DecPayloads}

\* any PID followed by up to MaxDecodeLen bytes
DecAny ==
    {<<pid>> \o rest : pid \in Byte,
                       rest \in UNION {[1 .. n -> {0, 255}] : n \in 0 .. MaxDecodeLen}}

DecInputs == {<<>>} \cup DecTokens \cup DecData \cup DecAny

\* what the caller's uninitialised usb_packet_t may hold
DecGarbage ==
    {usb_packet_t,
     [timestamp |-> [hi |-> 0, lo |-> 7], pid |-> USB_PID_DATA0, endpoint |-> 9, dev_addr |-> 99,
      data_len |-> 4, data |-> <<1, 2, 3, 4>>, crc_valid |-> FALSE]}

DecInit ==
    /\ d_pc = "in"
    /\ d_raw \in DecInputs
    /\ d_ret = FALSE
    /\ d_pkt \in DecGarbage

Decode ==
    /\ d_pc = "in"
    /\ \E r \in {usb_decode_packet(d_raw, Len(d_raw), d_pkt)} :
         /\ d_ret' = r.ret
         /\ d_pkt' = r.packet
    /\ d_pc' = "done"
    /\ UNCHANGED d_raw
    /\ UNCHANGED decOthers

DecNext == Decode

DecSpecInit == DecInit /\ RbIdle /\ SpIdle /\ EscIdle /\ CrcIdle /\ CommIdle /\ LoopIdle /\ ProgIdle /\ TrkIdle /\ BusIdle /\ WdtIdle /\ PollIdle /\ FsmIdle /\ SigIdle /\ EnIdle /\ TimeIdle /\ CapIdle

SpecDecode == DecSpecInit /\ [][DecNext]_vars

\* the eleven bits of a decoded token's address and endpoint, the address
\* in the low seven
AddrEndpBits(packet) == packet.dev_addr + 128 * packet.endpoint

\* C14: a token [pid, b1, b2] decodes with endpoint ((b1 & 7) << 1) | ((b2 &
\* 0x80) >> 7), dev_addr b2 & 0x7F, data_len 0, and crc_valid exactly when
\* the CRC5 of its eleven address and endpoint bits equals the five CRC bits
\* b2 >> 3; the token of the bus for an address and an endpoint decodes to
\* them with crc_valid true
C14_TokenDecode ==
    (d_pc = "done" /\ Len(d_raw) = 3 /\ d_raw[1] \in TokenPids) =>
        /\ d_ret
        /\ d_pkt.endpoint = Or16(And16(d_raw[2], 7) * 2, And16(d_raw[3], 128) \div 128)
        /\ d_pkt.dev_addr = And16(d_raw[3], 127)
        /\ d_pkt.data_len = 0
        /\ d_pkt.crc_valid = (usb_calculate_crc5(AddrEndpBits(d_pkt)) = d_raw[3] \div 8)
        /\ \A addr \in 0 .. 127, endp \in 0 .. 15 :
             d_raw = bus_token(d_raw[1], addr, endp) =>
                /\ d_pkt.dev_addr = addr
                /\ d_pkt.endpoint = endp
                /\ d_pkt.crc_valid


\* C15: a DATA0/DATA1 packet of n >= 3 bytes decodes with the bytes between
\* the PID and the last two as payload (data_len = n - 3), and crc_valid
\* exactly when the payload is empty or its CRC16 equals the value whose high
\* byte is the last byte and whose low byte is the second-to-last
C15_DataCrcLowByteFirst ==
    (d_pc = "done" /\ Len(d_raw) >= 3 /\ d_raw[1] \in DataPids) =>
        LET n == Len(d_raw)
            payload == SubSeq(d_raw, 2, n - 2)
        IN /\ d_ret
           /\ d_pkt.data_len = n - 3
           /\ d_pkt.data = payload
           /\ d_pkt.crc_valid =
                (n = 3 \/ usb_calculate_crc16(payload, n - 3)
                            = 256 * d_raw[n] + d_raw[n - 1])

\* C15 as stated: the two CRC bytes are read big-endian, the second-to-last
\* byte the high one
C15_DataCrcBigEndian ==
    (d_pc = "done" /\ Len(d_raw) >= 3 /\ d_raw[1] \in DataPids) =>
        LET n == Len(d_raw)
            payload == SubSeq(d_raw, 2, n - 2)
        IN /\ d_ret
           /\ d_pkt.data_len = n - 3
           /\ d_pkt.data = payload
           /\ d_pkt.crc_valid =
                (n = 3 \/ usb_calculate_crc16(payload, n - 3)
                            = 256 * d_raw[n - 1] + d_raw[n])

\* a data packet with a payload was found CRC-valid, and its two CRC bytes
\* differ, so that their order matters
C15_Witness ==
    /\ d_pc = "done"
    /\ Len(d_raw) > 3
    /\ d_raw[1] \in DataPids
    /\ d_pkt.crc_valid
    /\ d_raw[Len(d_raw)] # d_raw[Len(d_raw) - 1]

\* C16: usb_decode_packet returns false exactly for no bytes, for a token
\* or data PID with fewer than three bytes, and for a PID that is neither
\* token, data nor handshake; a handshake PID succeeds whatever follows it,
\* with no payload and crc_valid true
C16_DecodeFails ==
    d_pc = "done" =>
        LET n == Len(d_raw) IN
        /\ ~d_ret <=>
             \/ n = 0
             \/ n \in 1 .. 2 /\ d_raw[1] \in TokenPids \cup DataPids
             \/ n >= 1 /\ d_raw[1] \notin TokenPids \cup DataPids \cup HandshakePids
        /\ (n >= 1 /\ d_raw[1] \in HandshakePids) =>
             /\ d_ret
             /\ d_pkt.data_len = 0
             /\ d_pkt.data = <<>>
             /\ d_pkt.crc_valid

\* a STALL followed by two more bytes was decoded
C16_Witness ==
    /\ d_pc = "done"
    /\ Len(d_raw) = 3
    /\ d_raw[1] = USB_PID_STALL
    /\ d_ret

(***************************************************************************)
(* The transaction tracker and the filter: process_raw_packet,             *)
(* usb_process_packet and usb_send_packet_to_host (usb_interface.c)        *)
(***************************************************************************)

PACKET_TYPE_USB_PACKET == 128
PACKET_TYPE_USB_STATE_CHANGE == 129

\* the transmit state as the operators take it; hw is the number of bytes
\* the transmitter takes out of UDR0 while the code runs
TxState(hw) ==
    [tx |-> uart_tx_buffer, udre |-> UDRE0, udr |-> UDR0, udrie |-> UDRIE0,
     wire |-> wire, hw |-> hw, tx_sequence |-> tx_sequence, n_sent |-> n_sent,
     sends |-> sends, acks |-> acks, nacks |-> nacks, dispatched |-> dispatched,
     ret |-> TRUE, handed |-> <<>>]

\* the transmit state as the code leaves it
TxAssign(t) ==
    /\ uart_tx_buffer' = t.tx
    /\ UDRE0' = t.udre
    /\ UDR0' = t.udr
    /\ UDRIE0' = t.udrie
    /\ wire' = t.wire
    /\ tx_sequence' = t.tx_sequence
    /\ n_sent' = t.n_sent
    /\ sends' = t.sends
    /\ acks' = t.acks
    /\ nacks' = t.nacks
    /\ dispatched' = t.dispatched

\* the transmitter after comm_init, nothing queued
TxIdleInit ==
    /\ uart_tx_buffer = ringbuffer_init(ringbuffer_t)
    /\ uart_rx_buffer = ringbuffer_init(ringbuffer_t)
    /\ UDRE0 = TRUE
    /\ UDRIE0 = FALSE
    /\ UDR0 = 0
    /\ wire = <<>>
    /\ n_sent = 0
    /\ tx_sequence = 0
    /\ rx = rx_init
    /\ m = m_idle
    /\ sends = <<>>
    /\ acks = <<>>
    /\ nacks = <<>>
    /\ dispatched = <<>>
    /\ h_in = <<>>
    /\ h_n = 0
    /\ m_n = 0

\* (time << 16) | timer_count: the low half of timestamp_counter above TCNT1
usb_get_timestamp(u) == [hi |-> U16(u.timestamp_counter), lo |-> u.TCNT1]

\* mutant: handshake packets are not forwarded
usb_process_packet_no_handshake(u, t, packet) ==
    IF ~u.monitoring_enabled \/ usb_is_handshake_packet(packet.pid) THEN t
    ELSE comm_send_packet(t, PACKET_TYPE_USB_PACKET, <<packet.pid>>, 1)

\* buffer of usb_send_packet_to_host; the length argument of comm_send_packet
\* is a uint8_t
usb_send_packet_to_host(t, packet) ==
    LET ts == packet.timestamp
        buffer == <<ts.hi \div 256, ts.hi % 256, ts.lo \div 256, ts.lo % 256,
                    packet.pid, packet.dev_addr, packet.endpoint,
                    IF packet.crc_valid THEN 128 ELSE 0>>
                  \o (IF packet.data_len > 0 /\ packet.data # <<>>
                      THEN packet.data ELSE <<>>)
    IN comm_send_packet(t, PACKET_TYPE_USB_PACKET, buffer, U8(8 + packet.data_len))

\* mutant: the direction filters are left out
packet_matches_any_direction(config, packet) ==
    LET is_control == packet.endpoint = 0
        is_bulk == ~is_control
    IN /\ ~(config.addr_filter # 0 /\ packet.dev_addr # config.addr_filter)
       /\ ~(config.ep_filter # 0 /\ packet.endpoint # config.ep_filter)
       /\ ~(~config.capture_control /\ is_control)
       /\ ~(~config.capture_bulk /\ is_bulk)

\* packet_matches of usb_process_packet after the last filter
packet_matches(config, packet) ==
    LET is_control == packet.endpoint = 0
        is_interrupt == FALSE
        is_bulk == ~is_control /\ ~is_interrupt
        is_isoc == FALSE
    IN /\ ~(config.addr_filter # 0 /\ packet.dev_addr # config.addr_filter)
       /\ ~(config.ep_filter # 0 /\ packet.endpoint # config.ep_filter)
       /\ ~(~config.capture_control /\ is_control)
       /\ ~(~config.capture_bulk /\ is_bulk)
       /\ ~(~config.capture_interrupt /\ is_interrupt)
       /\ ~(~config.capture_isoc /\ is_isoc)
       /\ ~(\/ config.filter_in /\ packet.pid = USB_PID_IN
            \/ config.filter_out /\ (packet.pid = USB_PID_OUT
                                     \/ packet.pid = USB_PID_SETUP))

usb_process_packet(u, t, packet) ==
    IF u.monitoring_enabled /\ packet_matches(u.monitor_config, packet)
    THEN usb_send_packet_to_host(t, packet)
    ELSE t

\* mutant: a data packet keeps the fields it came with
correlate_never(u, packet) == packet

\* lines 307-308 and 324-325: the packet takes the fields of the last token
correlate(u, packet) ==
    [packet EXCEPT !.dev_addr = u.last_token_addr, !.endpoint = u.last_token_endp]

\* mutant: the endpoint is not looked at, IN and OUT are bulk transfers
token_transaction_bulk(u, packet) ==
    IF packet.pid = USB_PID_SETUP THEN TRANS_CONTROL_SETUP
    ELSE IF packet.pid = USB_PID_IN THEN TRANS_BULK_IN
    ELSE IF packet.pid = USB_PID_OUT THEN TRANS_BULK_OUT
    ELSE u.current_transaction

\* lines 283-299: current_transaction after a token
token_transaction(u, packet) ==
    IF packet.pid = USB_PID_SETUP THEN TRANS_CONTROL_SETUP
    ELSE IF packet.pid = USB_PID_IN
    THEN (IF packet.endpoint = 0 THEN TRANS_CONTROL_DATA ELSE TRANS_BULK_IN)
    ELSE IF packet.pid = USB_PID_OUT
    THEN (IF packet.endpoint = 0 THEN TRANS_CONTROL_DATA ELSE TRANS_BULK_OUT)
    ELSE u.current_transaction

\* process_raw_packet: garbage is what the uninitialised local packet holds;
\* the result has the return value, the statics and the transmit state
\* afterwards, the packet handed to usb_process_packet (handed tells whether
\* one was) and whether a transaction was completed
process_raw_packet(u, t, raw_data, length, garbage) ==
    LET none == [ret |-> FALSE, u |-> u, t |-> t, packet |-> garbage,
                 handed |-> FALSE, completed |-> FALSE]
    IN
    IF length < 1 THEN none
    ELSE LET dec == usb_decode_packet(raw_data, length,
                        [garbage EXCEPT !.timestamp = usb_get_timestamp(u)])
             packet == dec.packet
         IN
         IF ~dec.ret THEN none
         ELSE IF usb_is_token_packet(packet.pid)
         THEN LET u1 == [u EXCEPT
                     !.last_token_pid = packet.pid,
                     !.last_token_addr = packet.dev_addr,
                     !.last_token_endp = packet.endpoint,
                     !.last_token_time = packet.timestamp,
                     !.current_transaction = token_transaction(u, packet),
                     !.transaction_in_progress = TRUE]
              IN [ret |-> TRUE, u |-> u1, t |-> usb_process_packet(u1, t, packet),
                  packet |-> packet, handed |-> TRUE, completed |-> FALSE]
         ELSE IF usb_is_data_packet(packet.pid)
         THEN LET p1 == IF u.transaction_in_progress THEN correlate(u, packet)
                        ELSE packet
              IN [ret |-> TRUE, u |-> u, t |-> usb_process_packet(u, t, p1),
                  packet |-> p1, handed |-> TRUE, completed |-> FALSE]
         ELSE IF usb_is_handshake_packet(packet.pid)
         THEN IF u.transaction_in_progress
              THEN LET p1 == correlate(u, packet)
                       u1 == [u EXCEPT !.transaction_in_progress = FALSE,
                                       !.current_transaction = TRANS_NONE]
                   IN [ret |-> TRUE, u |-> u1, t |-> usb_process_packet(u1, t, p1),
                       packet |-> p1, handed |-> TRUE, completed |-> TRUE]
              ELSE [ret |-> TRUE, u |-> u, t |-> usb_process_packet(u, t, packet),
                    packet |-> packet, handed |-> TRUE, completed |-> FALSE]
         ELSE [ret |-> TRUE, u |-> u, t |-> usb_process_packet(u, t, packet),
               packet |-> packet, handed |-> TRUE, completed |-> FALSE]

\* usb_capture_packet: packet is what the caller's usb_packet_t holds before
\* the call, garbage what the uninitialised local of process_raw_packet
\* holds.  The result has the return value, the statics and the transmit
\* state afterwards, the caller's packet, the bytes handed to
\* process_raw_packet (called tells whether it was called) and the packet
\* process_raw_packet decoded.  The loops of
\* single pops (lines 377 .. 388) stop at the first pop that fails, as
\* ringbuffer_pop_multiple does
usb_capture_packet(u, t, packet, garbage) ==
    LET none(b) == [ret |-> FALSE, u |-> [u EXCEPT !.usb_packet_buffer = b],
                    t |-> t, packet |-> packet, raw |-> <<>>, called |-> FALSE,
                    decoded |-> packet]
        process(b, raw) ==
            LET r == process_raw_packet([u EXCEPT !.usb_packet_buffer = b], t,
                                        raw, Len(raw), garbage)
            IN [ret |-> r.ret, u |-> r.u, t |-> r.t,
                packet |-> IF r.ret
                           THEN [packet EXCEPT !.timestamp = usb_get_timestamp(r.u),
                                               !.pid = raw[1]]
                           ELSE packet,
                raw |-> raw, called |-> TRUE, decoded |-> r.packet]
    IN
    IF ringbuffer_empty(u.usb_packet_buffer) THEN none(u.usb_packet_buffer)
    ELSE LET p0 == ringbuffer_pop(u.usb_packet_buffer, 0)
             pid == p0.data
         IN
         IF usb_is_token_packet(pid)
         THEN \* expected_length = 3 and length = 1
              none(p0.rb)
         ELSE IF usb_is_data_packet(pid)
         THEN LET pl == ringbuffer_pop(p0.rb, 0) IN
              IF ~pl.ret THEN none(pl.rb)
              ELSE LET n == IF pl.data < USB_MAX_PACKET_SIZE - 3 THEN pl.data
                            ELSE USB_MAX_PACKET_SIZE - 3
                       body == ringbuffer_pop_multiple(pl.rb, [i \in 1 .. n |-> 0], n)
                   IN IF body.ret < n THEN none(body.rb)
                      ELSE LET crc == ringbuffer_pop_multiple(body.rb, <<0, 0>>, 2)
                           IN IF crc.ret < 2 THEN none(crc.rb)
                              ELSE process(crc.rb, <<pid>> \o body.data \o crc.data)
         ELSE IF usb_is_handshake_packet(pid)
         THEN process(p0.rb, <<pid>>)
         ELSE none(p0.rb)

\* mutant: the loop goes on for as long as usb_capture_packet returns true
process_usb_packets_unbounded(packets_processed) == TRUE

\* the first conjunct of the loop condition of process_usb_packets
process_usb_packets_limit(packets_processed) == packets_processed < 10

(***************************************************************************)
(* SpecTrack: raw packets handed to process_raw_packet, one after another  *)
(***************************************************************************)

MaxTrackPackets == 3

\* tokens: SETUP and SOF with address 5 and endpoint 2, IN with address 0
\* and endpoint 0, OUT with address 127 and endpoint 15
TrackTokens ==
    {<<USB_PID_SETUP, 1, 5>>, <<USB_PID_SOF, 1, 5>>, <<USB_PID_IN, 0, 0>>,
     <<USB_PID_OUT, 7, 255>>}

\* a data packet with its CRC16, low byte first
data_raw(pid, payload) ==
    LET crc == usb_calculate_crc16(payload, Len(payload)) IN
    <<pid>> \o payload \o <<crc % 256, crc \div 256>>

\* an 8-byte setup request (GET_DESCRIPTOR) and an empty DATA1
TrackData ==
    {data_raw(USB_PID_DATA0, <<128, 6, 0, 1, 0, 0, 18, 0>>),
     data_raw(USB_PID_DATA1, <<>>)}

TrackHandshakes == {<<USB_PID_ACK>>}

\* with a data packet too short to decode
TrackRaws == TrackTokens \cup TrackData \cup TrackHandshakes \cup {<<USB_PID_DATA1, 0>>}

TrackInit ==
    /\ TxIdleInit
    /\ prog = [prog_init EXCEPT !.current_state = STATE_MONITORING]
    /\ usb = usb_monitor_enable(usb_statics, default_config_init)
    /\ handled = <<>>
    /\ cmd_n = 0
    /\ tracked = <<>>
    /\ trk_n = 0
    /\ f_pkt = Absent
    /\ f_pc = "idle"

\* one call of process_raw_packet
ProcessRaw ==
    /\ trk_n < MaxTrackPackets
    /\ \E raw \in TrackRaws, garbage \in DecGarbage :
         \E r \in {process_raw_packet(usb, TxState(0), raw, Len(raw), garbage)} :
            /\ usb' = r.u
            /\ TxAssign(r.t)
            /\ tracked' = Append(tracked,
                   [raw |-> raw, ret |-> r.ret, handed |-> r.handed,
                    packet |-> r.packet, completed |-> r.completed,
                    transaction_in_progress |-> r.u.transaction_in_progress,
                    current_transaction |-> r.u.current_transaction])
    /\ trk_n' = trk_n + 1
    /\ UNCHANGED <<uart_rx_buffer, rx, m, h_in, h_n, m_n>>
    /\ UNCHANGED <<prog, handled, cmd_n, f_pkt, f_pc>>
    /\ UNCHANGED trackOthers

TrackNext == ProcessRaw

TrackSpecInit == TrackInit /\ RbIdle /\ SpIdle /\ EscIdle /\ CrcIdle /\ LoopIdle /\ DecIdle /\ BusIdle /\ WdtIdle /\ PollIdle /\ FsmIdle /\ SigIdle /\ EnIdle /\ TimeIdle /\ CapIdle

SpecTrack == TrackSpecInit /\ [][TrackNext]_vars

IsToken(raw) == Len(raw) = 3 /\ raw[1] \in TokenPids
IsData(raw) == Len(raw) >= 3 /\ raw[1] \in DataPids
IsHandshake(raw) == Len(raw) >= 1 /\ raw[1] \in HandshakePids

\* the address and the endpoint of a token [pid, b1, b2]
TokenAddr(raw) == raw[3] % 128
TokenEndp(raw) == (raw[2] % 8) * 2 + raw[3] \div 128

\* C17: when a token, a data packet and a handshake are processed one after
\* the other, the data packet and the handshake are handed to the filter
\* with the token's address and endpoint, exactly one of the three calls
\* completes a transaction, and after the handshake the tracker holds
\* TRANS_NONE and no transaction in progress
C17_TokenDataHandshake ==
    \A i \in 1 .. Len(tracked) - 2 :
        (IsToken(tracked[i].raw) /\ IsData(tracked[i + 1].raw)
            /\ IsHandshake(tracked[i + 2].raw)) =>
           /\ \A j \in {i + 1, i + 2} :
                /\ tracked[j].handed
                /\ tracked[j].packet.dev_addr = TokenAddr(tracked[i].raw)
                /\ tracked[j].packet.endpoint = TokenEndp(tracked[i].raw)
           /\ ~tracked[i].completed
           /\ ~tracked[i + 1].completed
           /\ tracked[i + 2].completed
           /\ tracked[i + 2].current_transaction = TRANS_NONE
           /\ ~tracked[i + 2].transaction_in_progress

\* SETUP for address 5, endpoint 2, an 8-byte DATA0 and an ACK have been
\* processed
C17_Witness ==
    /\ Len(tracked) = 3
    /\ tracked[1].raw = <<USB_PID_SETUP, 1, 5>>
    /\ tracked[2].raw[1] = USB_PID_DATA0
    /\ tracked[2].packet.data_len = 8
    /\ tracked[3].raw = <<USB_PID_ACK>>
    /\ tracked[3].completed


\* whether usb_decode_packet accepts the raw packet
Decodes(raw) ==
    Len(raw) >= 1 /\ usb_decode_packet(raw, Len(raw), usb_packet_t).ret

C27_NeverDrops ==
    /\ \A i \in 1 .. Len(tracked) :
          /\ tracked[i].handed <=> Decodes(tracked[i].raw)
          /\ tracked[i].handed => tracked[i].packet.pid = tracked[i].raw[1]
    /\ Len(sends) = Cardinality({i \in 1 .. Len(tracked) : Decodes(tracked[i].raw)})
    /\ \A k \in 1 .. Len(sends) : sends[k].type = PACKET_TYPE_USB_PACKET

\* an ACK and a data packet without a token before them, then a token
\* followed by a second token, were all handed on
C27_Witness ==
    /\ Len(tracked) = 3
    /\ tracked[1].raw = <<USB_PID_ACK>>
    /\ IsData(tracked[2].raw)
    /\ Decodes(tracked[2].raw)
    /\ IsToken(tracked[3].raw)
    /\ \A i \in 1 .. 3 : tracked[i].handed
    /\ Len(sends) = 3

\* C39: transaction_in_progress is true exactly when current_transaction is
\* not TRANS_NONE
C39_TrackerAgrees ==
    usb.transaction_in_progress <=> usb.current_transaction # TRANS_NONE

(***************************************************************************)
(* SpecFilter: usb_process_packet applied to one packet under one          *)
(* monitoring configuration                                                *)
(***************************************************************************)

\* configurations that filter on address 5 or not, on endpoint 2 or not,
\* with every choice of the capture and direction flags
FilterConfigs ==
    {[speed |-> USB_SPEED_FULL, capture_control |-> cc, capture_bulk |-> cb,
      capture_interrupt |-> ci, capture_isoc |-> cs, addr_filter |-> af,
      ep_filter |-> ef, filter_in |-> fi, filter_out |-> fo] :
        cc \in BOOLEAN, cb \in BOOLEAN, ci \in BOOLEAN, cs \in BOOLEAN,
        af \in {0, 5}, ef \in {0, 2}, fi \in BOOLEAN, fo \in BOOLEAN}

FilterPackets ==
    {[usb_packet_t EXCEPT !.pid = pid, !.dev_addr = addr, !.endpoint = endp,
                          !.crc_valid = TRUE] :
        pid \in {USB_PID_IN, USB_PID_OUT, USB_PID_SETUP, USB_PID_DATA0, USB_PID_ACK},
        addr \in {0, 5, 6}, endp \in {0, 2, 3}}

\* monitoring enabled with a configuration, or disabled again
FilterInit ==
    /\ TxIdleInit
    /\ prog = prog_init
    /\ \E config \in FilterConfigs :
         \/ usb = usb_monitor_enable(usb_statics, config)
         \/ /\ config = default_config_init
            /\ usb = usb_monitor_disable(usb_monitor_enable(usb_statics, config))
    /\ handled = <<>>
    /\ cmd_n = 0
    /\ tracked = <<>>
    /\ trk_n = 0
    /\ f_pkt \in FilterPackets
    /\ f_pc = "in"

FilterPacket ==
    /\ f_pc = "in"
    /\ \E t \in {usb_process_packet(usb, TxState(0), f_pkt)} : TxAssign(t)
    /\ f_pc' = "done"
    /\ UNCHANGED <<uart_rx_buffer, rx, m, h_in, h_n, m_n>>
    /\ UNCHANGED <<prog, usb, handled, cmd_n, tracked, trk_n, f_pkt>>
    /\ UNCHANGED trackOthers

FilterNext == FilterPacket

FilterSpecInit == FilterInit /\ RbIdle /\ SpIdle /\ EscIdle /\ CrcIdle /\ LoopIdle /\ DecIdle /\ BusIdle /\ WdtIdle /\ PollIdle /\ FsmIdle /\ SigIdle /\ EnIdle /\ TimeIdle /\ CapIdle

SpecFilter == FilterSpecInit /\ [][FilterNext]_vars

\* the six rejections
Rejects(config, packet) ==
    \/ config.addr_filter # 0 /\ packet.dev_addr # config.addr_filter
    \/ config.ep_filter # 0 /\ packet.endpoint # config.ep_filter
    \/ packet.endpoint = 0 /\ ~config.capture_control
    \/ packet.endpoint # 0 /\ ~config.capture_bulk
    \/ config.filter_in /\ packet.pid = USB_PID_IN
    \/ config.filter_out /\ packet.pid \in {USB_PID_OUT, USB_PID_SETUP}

\* C20: with monitoring enabled, usb_process_packet sends the packet to the
\* host (one USB_PACKET frame carrying its PID, address and endpoint) exactly
\* when none of the six rejections applies, and sends nothing otherwise,
\* whatever capture_interrupt and capture_isoc are
C20_FilterForwards ==
    (f_pc = "done" /\ usb.monitoring_enabled) =>
        IF Rejects(usb.monitor_config, f_pkt)
        THEN sends = <<>>
        ELSE /\ Len(sends) = 1
             /\ sends[1].type = PACKET_TYPE_USB_PACKET
             /\ SubSeq(sends[1].data, 5, 7)
                    = <<f_pkt.pid, f_pkt.dev_addr, f_pkt.endpoint>>

\* an IN packet for address 5, endpoint 2 was forwarded with both filters
\* set and capture_interrupt and capture_isoc off
C20_Witness ==
    /\ f_pc = "done"
    /\ usb.monitoring_enabled
    /\ usb.monitor_config.addr_filter = 5
    /\ usb.monitor_config.ep_filter = 2
    /\ ~usb.monitor_config.capture_interrupt
    /\ ~usb.monitor_config.capture_isoc
    /\ f_pkt.pid = USB_PID_IN
    /\ Len(sends) = 1

(***************************************************************************)
(* The line-edge interrupt and the bus poll of the main loop               *)
(***************************************************************************)

\* current_byte |= (1 << bit_count)
set_bit(byte, bit) ==
    IF (byte \div (2 ^ bit)) % 2 = 1 THEN byte ELSE U8(byte + 2 ^ bit)

\* the for loop of lines 629 .. 631: i runs from lo to hi - 1; stray is what
\* a read past the end of packet_data_buffer finds
RECURSIVE flush_loop(_, _, _, _, _)
flush_loop(ring, buffer, lo, hi, stray) ==
    IF ring.write_index < 0 \/ lo >= hi THEN ring
    ELSE IF hi - lo = 1
    THEN ringbuffer_push(ring, IF lo < USB_MAX_PACKET_SIZE THEN buffer[lo + 1]
                               ELSE stray).rb
    ELSE LET mid == (lo + hi) \div 2 IN
         flush_loop(flush_loop(ring, buffer, lo, mid, stray), buffer, mid, hi, stray)

\* ISR(INT0_vect) with the pins read as dp_state and dm_state: the statics
\* and the transmit state afterwards
INT0_vect(u, t, dp_state, dm_state, stray) ==
    LET timestamp == usb_get_timestamp(u) IN
    IF ~u.monitoring_enabled THEN [u |-> u, t |-> t]
    ELSE
    LET time_diff == timestamp_diff(timestamp, u.last_edge_time)
        dp_edge == dp_state # u.last_dp_state
        dm_edge == dm_state # u.last_dm_state
        u0 == [u EXCEPT !.last_edge_time = timestamp,
                        !.last_dp_state = dp_state, !.last_dm_state = dm_state]
    IN
    IF ~dp_state /\ ~dm_state
    THEN IF timestamp_over(time_diff, 20)
         THEN LET u1 == IF ~u0.packet_in_progress THEN u0
                        ELSE IF u0.packet_data_length = 0
                        THEN [u0 EXCEPT !.packet_in_progress = FALSE]
                        ELSE LET b1 == ringbuffer_push(u0.usb_packet_buffer,
                                                       u0.current_pid).rb
                                 b2 == ringbuffer_push(b1, u0.packet_data_length).rb
                             IN [u0 EXCEPT
                                   !.packet_in_progress = FALSE,
                                   !.usb_packet_buffer =
                                       flush_loop(b2, u0.packet_data_buffer, 0,
                                                  u0.packet_data_length, stray),
                                   !.packet_data_length = 0]
                  reset == timestamp_over(time_diff, 250)
              IN [u |-> [u1 EXCEPT !.bus_reset_detected = IF reset THEN TRUE ELSE @,
                                   !.sync_detected = FALSE, !.bit_count = 0,
                                   !.current_byte = 0],
                  t |-> IF reset
                        THEN comm_send_packet(t, PACKET_TYPE_USB_STATE_CHANGE, <<2>>, 1)
                        ELSE t]
         ELSE [u |-> u0, t |-> t]
    ELSE IF dp_edge \/ dm_edge
    THEN IF ~u0.sync_detected
         THEN IF dp_state /\ ~dm_state /\ u0.bit_count = 7
              THEN [u |-> [u0 EXCEPT !.sync_detected = TRUE,
                                     !.packet_in_progress = TRUE,
                                     !.bit_count = 0, !.current_byte = 0],
                    t |-> t]
              ELSE [u |-> [u0 EXCEPT !.bit_count = (@ + 1) % 8], t |-> t]
         ELSE IF u0.packet_in_progress
         THEN LET byte == IF dp_state # dm_state
                          THEN set_bit(u0.current_byte, u0.bit_count)
                          ELSE u0.current_byte
              IN IF u0.bit_count + 1 = 8
                 THEN [u |-> [u0 EXCEPT
                                !.current_pid =
                                    IF u0.packet_data_length = 0 THEN byte ELSE @,
                                !.packet_data_buffer =
                                    IF u0.packet_data_length > 0
                                       /\ u0.packet_data_length < USB_MAX_PACKET_SIZE
                                    THEN [@ EXCEPT ![u0.packet_data_length] = byte]
                                    ELSE @,
                                !.packet_data_length = U8(@ + 1),
                                !.bit_count = 0, !.current_byte = 0],
                       t |-> t]
                 ELSE [u |-> [u0 EXCEPT !.current_byte = byte,
                                        !.bit_count = U8(@ + 1)],
                       t |-> t]
         ELSE [u |-> u0, t |-> t]
    ELSE [u |-> u0, t |-> t]

\* ISR(TIMER1_OVF_vect); timestamp_counter is read by usb_get_timestamp
\* alone, which keeps its low 16 bits, and those are kept here
TIMER1_OVF_vect(u) == [u EXCEPT !.timestamp_counter = U16(@ + 1)]

\* whether ISR(INT0_vect) takes its bus-reset branch (lines 593, 613, 615
\* and 638)
bus_reset_branch(u, dp_state, dm_state) ==
    /\ u.monitoring_enabled
    /\ ~dp_state /\ ~dm_state
    /\ timestamp_over(timestamp_diff(usb_get_timestamp(u), u.last_edge_time), 250)

\* usb_detect_bus_state: bus_powered is ADC > 800, dp_high and dm_high the
\* pins; connected_devices is a uint8_t
usb_detect_bus_state(u, t, bus_powered, dp_high, dm_high) ==
    LET attach(speed) ==
            IF u.usb_state < USB_STATE_ATTACHED
            THEN [u |-> [u EXCEPT !.usb_state = USB_STATE_ATTACHED,
                                  !.connected_devices = U8(@ + 1)],
                  t |-> comm_send_packet(t, PACKET_TYPE_USB_STATE_CHANGE,
                                         <<1, speed>>, 2)]
            ELSE [u |-> u, t |-> t]
    IN
    IF bus_powered
    THEN IF dp_high /\ ~dm_high THEN attach(USB_SPEED_FULL)
         ELSE IF ~dp_high /\ dm_high THEN attach(USB_SPEED_LOW)
         ELSE IF ~dp_high /\ ~dm_high
         THEN IF u.usb_state > USB_STATE_POWERED
              THEN [u |-> [u EXCEPT !.bus_reset_detected = TRUE,
                                    !.usb_state = USB_STATE_POWERED],
                    t |-> comm_send_packet(t, PACKET_TYPE_USB_STATE_CHANGE, <<2>>, 1)]
              ELSE [u |-> [u EXCEPT !.usb_state = USB_STATE_POWERED], t |-> t]
         ELSE [u |-> u, t |-> t]
    ELSE [u |-> [u EXCEPT !.usb_state = USB_STATE_DETACHED, !.connected_devices = 0],
          t |-> IF u.usb_state > USB_STATE_DETACHED
                THEN comm_send_packet(t, PACKET_TYPE_USB_STATE_CHANGE, <<0>>, 1)
                ELSE t]

\* handle_usb_reset: p the statics of main.c
handle_usb_reset(p, u, t) ==
    [p |-> [p EXCEPT !.usb_reset_flag = FALSE],
     t |-> comm_send_status_report(t, usb_get_device_count(u),
               IF p.current_state = STATE_MONITORING THEN 1 ELSE 0,
               p.buffer_usage)]

(***************************************************************************)
(* SpecBus: the bus lines change and time passes while the firmware        *)
(* monitors: the line-edge interrupt, the bus poll of the main loop and    *)
(* process_raw_packet                                                      *)
(***************************************************************************)

MaxLineChanges == 2
MaxBusTicks == 2
MaxBusPolls == 1
MaxBusPackets == 2

\* timer ticks between two events: within a packet, and longer than the
\* reset threshold
BusDeltas == {10, 300}

\* idle full-speed bus (J), K, SE0 on a powered bus, and no bus power
BusLevels ==
    {[dp |-> TRUE, dm |-> FALSE, vbus |-> TRUE],
     [dp |-> FALSE, dm |-> TRUE, vbus |-> TRUE],
     [dp |-> FALSE, dm |-> FALSE, vbus |-> TRUE],
     [dp |-> FALSE, dm |-> FALSE, vbus |-> FALSE]}

IsSE0(l) == ~l.dp /\ ~l.dm /\ l.vbus

\* a SETUP token for address 5, endpoint 2, and an ACK
BusRaws == {<<USB_PID_SETUP, 1, 5>>, <<USB_PID_ACK>>}

\* the USB_STATE_CHANGE frames with code 2 among the first n frames sent
ResetFrames(s) ==
    Cardinality({i \in 1 .. Len(s) :
                    /\ s[i].type = PACKET_TYPE_USB_STATE_CHANGE
                    /\ s[i].data = <<2>>})

\* monitoring was enabled on an idle full-speed bus
BusInit ==
    /\ TxIdleInit
    /\ prog = [prog_init EXCEPT !.current_state = STATE_MONITORING]
    /\ usb = usb_monitor_enable(usb_statics, default_config_init)
    /\ handled = <<>>
    /\ cmd_n = 0
    /\ tracked = <<>>
    /\ trk_n = 0
    /\ f_pkt = Absent
    /\ f_pc = "idle"
    /\ line = [dp |-> TRUE, dm |-> FALSE, vbus |-> TRUE]
    /\ se0 = [on |-> FALSE, held |-> 0, base |-> 0]
    /\ detections = 0
    /\ polled = FALSE
    /\ b_n = [lines |-> 0, ticks |-> 0, polls |-> 0]

BusTxUnchanged == UNCHANGED <<uart_rx_buffer, rx, m, h_in, h_n, m_n>>

\* the lines change; a change of D+ raises INT0
LineChange ==
    /\ b_n.lines < MaxLineChanges
    /\ \E l \in BusLevels \ {line}, stray \in {0, 255} :
         \E r \in {IF l.dp # line.dp
                   THEN INT0_vect(usb, TxState(0), l.dp, l.dm, stray)
                   ELSE [u |-> usb, t |-> TxState(0)]} :
            /\ line' = l
            /\ usb' = r.u
            /\ TxAssign(r.t)
            /\ detections' = detections
                   + (IF l.dp # line.dp /\ bus_reset_branch(usb, l.dp, l.dm)
                      THEN 1 ELSE 0)
            /\ se0' = IF IsSE0(l) /\ ~IsSE0(line)
                      THEN [on |-> TRUE, held |-> 0, base |-> ResetFrames(sends)]
                      ELSE [se0 EXCEPT !.on = IsSE0(l)]
    /\ polled' = FALSE
    /\ b_n' = [b_n EXCEPT !.lines = @ + 1]
    /\ BusTxUnchanged
    /\ UNCHANGED <<prog, handled, cmd_n, tracked, trk_n, f_pkt, f_pc>>
    /\ UNCHANGED lineOthers

\* time passes; TCNT1 wrapping raises TIMER1_OVF
BusTick ==
    /\ b_n.ticks < MaxBusTicks
    /\ \E d \in BusDeltas :
         /\ usb' = IF usb.TCNT1 + d >= 65536
                   THEN TIMER1_OVF_vect([usb EXCEPT !.TCNT1 = U16(@ + d)])
                   ELSE [usb EXCEPT !.TCNT1 = @ + d]
         /\ se0' = IF se0.on THEN [se0 EXCEPT !.held = @ + d] ELSE se0
    /\ b_n' = [b_n EXCEPT !.ticks = @ + 1]
    /\ UNCHANGED <<prog, handled, cmd_n, tracked, trk_n, f_pkt, f_pc>>
    /\ UNCHANGED <<line, detections, polled>>
    /\ UNCHANGED <<commVars, lineOthers>>

\* the head of one pass of the main loop: the reset flag, then the bus poll
MainBusPoll ==
    /\ b_n.polls < MaxBusPolls
    /\ \E h \in {IF prog.usb_reset_flag
                 THEN handle_usb_reset(prog, usb, TxState(0))
                 ELSE [p |-> prog, t |-> TxState(0)]} :
         \E r \in {usb_detect_bus_state(usb, h.t, line.vbus, line.dp, line.dm)} :
            /\ prog' = h.p
            /\ usb' = r.u
            /\ TxAssign(r.t)
    /\ polled' = TRUE
    /\ b_n' = [b_n EXCEPT !.polls = @ + 1]
    /\ BusTxUnchanged
    /\ UNCHANGED <<handled, cmd_n, tracked, trk_n, f_pkt, f_pc>>
    /\ UNCHANGED <<line, se0, detections>>
    /\ UNCHANGED lineOthers

\* one call of process_raw_packet; the entry keeps the tracker as the call
\* found it and the bus resets detected before it
BusProcessRaw ==
    /\ trk_n < MaxBusPackets
    /\ \E raw \in BusRaws, garbage \in {usb_packet_t} :
         \E r \in {process_raw_packet(usb, TxState(0), raw, Len(raw), garbage)} :
            /\ usb' = r.u
            /\ TxAssign(r.t)
            /\ tracked' = Append(tracked,
                   [raw |-> raw, ret |-> r.ret, handed |-> r.handed,
                    packet |-> r.packet, completed |-> r.completed,
                    transaction_in_progress |-> r.u.transaction_in_progress,
                    current_transaction |-> r.u.current_transaction,
                    was_in_progress |-> usb.transaction_in_progress,
                    was_transaction |-> usb.current_transaction,
                    detections |-> detections])
    /\ trk_n' = trk_n + 1
    /\ BusTxUnchanged
    /\ UNCHANGED <<prog, handled, cmd_n, f_pkt, f_pc>>
    /\ UNCHANGED busVars
    /\ UNCHANGED trackOthers

BusNext == LineChange \/ BusTick \/ MainBusPoll \/ BusProcessRaw

BusSpecInit == BusInit /\ RbIdle /\ SpIdle /\ EscIdle /\ CrcIdle /\ LoopIdle /\ DecIdle /\ WdtIdle /\ PollIdle /\ FsmIdle /\ SigIdle /\ EnIdle /\ TimeIdle /\ CapIdle

SpecBus == BusSpecInit /\ [][BusNext]_vars

\* C18: when a bus reset was detected since the packet before (an SE0 edge
\* more than 250 ticks after the previous edge, while monitoring), the next
\* call of process_raw_packet finds the transaction tracker reset: kind NONE
\* and no transaction in progress
C18_ResetClearsTracker ==
    \A j \in 1 .. Len(tracked) :
        tracked[j].detections > (IF j = 1 THEN 0 ELSE tracked[j - 1].detections)
            => /\ ~tracked[j].was_in_progress
               /\ tracked[j].was_transaction = TRANS_NONE

\* C19: once an SE0 condition that was held longer than 250 ticks is over and
\* the main loop has polled the bus, exactly one USB_STATE_CHANGE frame with
\* code 2 was sent for it
C19_OneResetFrame ==
    (~se0.on /\ polled /\ se0.held > 250)
        => ResetFrames(sends) - se0.base = 1

(***************************************************************************)
(* SpecFatal: the watchdog interrupt and the commands of the host           *)
(***************************************************************************)

PACKET_TYPE_ERROR_REPORT == 131
ERR_TIMEOUT == 6

MaxWdt == 1
MaxFatalCommands == 2

comm_send_error(t, error_code, context) ==
    comm_send_packet(t, PACKET_TYPE_ERROR_REPORT, <<error_code, context>>, 2)

\* handle_fatal_error: p the statics of main.c, t the transmit state
handle_fatal_error(p, t, code) ==
    [p |-> [p EXCEPT !.error_code = code, !.current_state = STATE_ERROR],
     t |-> comm_send_error(t, code, 0)]

\* ISR(WDT_vect)
WDT_vect(p, t) == handle_fatal_error(p, t, ERR_TIMEOUT)

FatalInit ==
    /\ TxIdleInit
    /\ prog \in {prog_init, [prog_init EXCEPT !.current_state = STATE_MONITORING]}
    /\ usb = IF prog.current_state = STATE_MONITORING
             THEN usb_monitor_enable(usb_statics, default_config_init)
             ELSE usb_statics
    /\ handled = <<>>
    /\ cmd_n = 0
    /\ wdt_n = 0

\* the watchdog expires
WdtIsr ==
    /\ wdt_n < MaxWdt
    /\ \E r \in {WDT_vect(prog, TxState(0))} :
         /\ prog' = r.p
         /\ TxAssign(r.t)
    /\ wdt_n' = wdt_n + 1
    /\ UNCHANGED <<uart_rx_buffer, rx, m, h_in, h_n, m_n>>
    /\ UNCHANGED <<usb, handled, cmd_n>>
    /\ UNCHANGED fatalOthers

\* one pass of the main loop that finds a packet: main.c lines 284-287
FatalCommand ==
    /\ cmd_n < MaxFatalCommands
    /\ \E packet \in CmdPackets :
         \E r \in {handle_command_packet(prog, usb, TxState(0), packet)} :
            /\ prog' = r.p
            /\ usb' = r.u
            /\ TxAssign(r.t)
            /\ handled' = Append(handled, packet)
    /\ cmd_n' = cmd_n + 1
    /\ UNCHANGED <<uart_rx_buffer, rx, m, h_in, h_n, m_n>>
    /\ UNCHANGED wdt_n
    /\ UNCHANGED fatalOthers

FatalNext == WdtIsr \/ FatalCommand

FatalSpecInit == FatalInit /\ RbIdle /\ SpIdle /\ EscIdle /\ CrcIdle /\ LoopIdle /\ DecIdle /\ TrkIdle /\ BusIdle /\ PollIdle /\ FsmIdle /\ SigIdle /\ EnIdle /\ TimeIdle /\ CapIdle

SpecFatal == FatalSpecInit /\ [][FatalNext]_vars

\* the ERROR_REPORT frames with code TIMEOUT among the frames sent
TimeoutReports(s) ==
    Cardinality({i \in 1 .. Len(s) :
                    /\ s[i].type = PACKET_TYPE_ERROR_REPORT
                    /\ s[i].data[1] = ERR_TIMEOUT})

\* C22: once the watchdog has expired and handle_fatal_error has run, the
\* program state is STATE_ERROR whatever commands the host has sent since,
\* and one ERROR_REPORT frame with code TIMEOUT was sent for each expiry
C22_ErrorStatePersists ==
    wdt_n > 0 => /\ prog.current_state = STATE_ERROR
                 /\ TimeoutReports(sends) = wdt_n

(***************************************************************************)
(* SpecPoll: usb_detect_bus_state on a sequence of samples of the bus      *)
(***************************************************************************)

MaxSamples == 3

PollInit ==
    /\ TxIdleInit
    /\ prog = prog_init
    /\ usb = usb_statics
    /\ handled = <<>>
    /\ cmd_n = 0
    /\ samples = <<>>

\* one call of usb_detect_bus_state
DetectBusState ==
    /\ Len(samples) < MaxSamples
    /\ \E bus_powered \in BOOLEAN, dp_high \in BOOLEAN, dm_high \in BOOLEAN :
         \E r \in {usb_detect_bus_state(usb, TxState(0), bus_powered, dp_high, dm_high)} :
            /\ usb' = r.u
            /\ TxAssign(r.t)
            /\ samples' = Append(samples,
                   [bus_powered |-> bus_powered, dp_high |-> dp_high,
                    dm_high |-> dm_high,
                    usb_state |-> usb.usb_state,
                    connected_devices |-> usb.connected_devices,
                    usb_state_after |-> r.u.usb_state,
                    connected_devices_after |-> r.u.connected_devices,
                    sent |-> SubSeq(r.t.sends, Len(sends) + 1, Len(r.t.sends))])
    /\ UNCHANGED <<uart_rx_buffer, rx, m, h_in, h_n, m_n>>
    /\ UNCHANGED <<prog, handled, cmd_n>>
    /\ UNCHANGED detectOthers

PollNext == DetectBusState

PollSpecInit == PollInit /\ RbIdle /\ SpIdle /\ EscIdle /\ CrcIdle /\ LoopIdle /\ DecIdle /\ TrkIdle /\ BusIdle /\ WdtIdle /\ FsmIdle /\ SigIdle /\ EnIdle /\ TimeIdle /\ CapIdle

SpecPoll == PollSpecInit /\ [][PollNext]_vars

\* the sample shows a device on a powered bus: exactly one line pulled high
ShowsDevice(s) == s.bus_powered /\ s.dp_high # s.dm_high

\* C23: a sample that shows a device while usb_state is DETACHED or POWERED
\* takes usb_state to ATTACHED, increments connected_devices by one and sends
\* one USB_STATE_CHANGE frame {1, speed}; a sample without bus power sets
\* connected_devices to 0
C23_AttachCounts ==
    \A i \in 1 .. Len(samples) :
        LET s == samples[i] IN
        /\ (ShowsDevice(s) /\ s.usb_state \in {USB_STATE_DETACHED, USB_STATE_POWERED})
              => /\ s.usb_state_after = USB_STATE_ATTACHED
                 /\ s.connected_devices_after = U8(s.connected_devices + 1)
                 /\ Len(s.sent) = 1
                 /\ s.sent[1].type = PACKET_TYPE_USB_STATE_CHANGE
                 /\ s.sent[1].data = <<1, IF s.dp_high THEN USB_SPEED_FULL
                                          ELSE USB_SPEED_LOW>>
        /\ ~s.bus_powered => s.connected_devices_after = 0

(***************************************************************************)
(* SpecFsm: the receive interrupt is given a stream of bytes, one by one   *)
(***************************************************************************)

\* 255 data bytes with the values 1 .. 250, the sync and the escape byte
\* among them
FsmLongData == [i \in 1 .. COMM_MAX_PACKET_SIZE |-> (i % 250) + 1]

\* the streams on the receive line: a frame without data; a frame whose data
\* and sequence number need escaping; bytes that are no frame start, the last
\* one an escape byte, before a frame with a damaged CRC; a frame of 255 data
\* bytes; two frames back to back; a frame cut short by the next sync byte
FsmStreams ==
    {host_frame(PACKET_TYPE_CMD_GET_STATUS, <<>>, 7, 0),
     host_frame(PACKET_TYPE_CMD_SET_FILTER, <<COMM_SYNC_BYTE, 1>>, COMM_ESCAPE_BYTE, 0),
     <<0, COMM_ESCAPE_BYTE, COMM_ESCAPE_BYTE, 3, COMM_ESCAPE_BYTE>>
        \o host_frame(PACKET_TYPE_CMD_RESET, <<9>>, 2, 1),
     host_frame(PACKET_TYPE_CMD_SET_FILTER, FsmLongData, 1, 0),
     host_frame(PACKET_TYPE_CMD_GET_STATUS, <<>>, 1, 0)
        \o host_frame(PACKET_TYPE_CMD_GET_STATUS, <<7>>, 2, 0),
     <<COMM_SYNC_BYTE, 1, 3, 0, COMM_SYNC_BYTE, COMM_SYNC_BYTE, COMM_SYNC_BYTE, 1, 2>>}

\* after comm_init, the whole stream still to come
FsmInit ==
    /\ uart_tx_buffer = ringbuffer_init(ringbuffer_t)
    /\ uart_rx_buffer = ringbuffer_init(ringbuffer_t)
    /\ UDRE0 = TRUE
    /\ UDRIE0 = FALSE
    /\ UDR0 = 0
    /\ wire = <<>>
    /\ n_sent = 0
    /\ tx_sequence = 0
    /\ rx = rx_init
    /\ m = m_idle
    /\ sends = <<>>
    /\ acks = <<>>
    /\ nacks = <<>>
    /\ dispatched = <<>>
    /\ h_in \in FsmStreams
    /\ h_n = 0
    /\ m_n = 0
    /\ rx_trace = <<>>

\* ISR(USART_RX_vect) on the next byte of the stream
FsmByte ==
    /\ h_in # <<>>
    /\ LET data == Head(h_in) IN
       \E p \in {process_rx_byte(rx, TxState(0), data)} :
          /\ rx' = p.r
          /\ TxAssign(p.t)
          /\ uart_rx_buffer' = ringbuffer_push(uart_rx_buffer, data).rb
          /\ rx_trace' = Append(rx_trace,
                 [byte |-> data,
                  prefix |-> ~rx.escape_next /\ data = COMM_ESCAPE_BYTE,
                  before |-> rx.rx_state,
                  after |-> p.r.rx_state,
                  value |-> p.r.unescaped_byte,
                  count |-> p.r.rx_data_count,
                  wrote |-> {i \in 1 .. COMM_MAX_PACKET_SIZE :
                                p.r.rx_packet.data[i] # rx.rx_packet.data[i]},
                  stored |-> IF p.r.rx_data_count > 0
                             THEN p.r.rx_packet.data[p.r.rx_data_count] ELSE 0,
                  header_same |->
                      /\ p.r.rx_packet.type = rx.rx_packet.type
                      /\ p.r.rx_packet.length = rx.rx_packet.length
                      /\ p.r.rx_packet.sequence = rx.rx_packet.sequence
                      /\ p.r.rx_packet.crc = rx.rx_packet.crc,
                  answers |-> (Len(p.t.acks) - Len(acks)) + (Len(p.t.nacks) - Len(nacks))])
    /\ h_in' = Tail(h_in)
    /\ UNCHANGED <<m, h_n, m_n>>
    /\ UNCHANGED rxOthers

FsmNext == FsmByte

FsmSpecInit == FsmInit /\ RbIdle /\ SpIdle /\ EscIdle /\ CrcIdle /\ LoopIdle /\ ProgIdle /\ DecIdle /\ TrkIdle /\ BusIdle /\ WdtIdle /\ PollIdle /\ SigIdle /\ EnIdle /\ TimeIdle /\ CapIdle

SpecFsm == FsmSpecInit /\ [][FsmNext]_vars

\* the entries of rx_trace that are no escape prefix, from entry lo on
NoPrefix(e) == ~e.prefix
Consumed(tr, lo) == SelectSeq(SubSeq(tr, lo, Len(tr)), NoPrefix)

\* the entries at which a sync byte was taken
SyncEntries(tr) ==
    {i \in 1 .. Len(tr) : tr[i].before = "WAIT_SYNC" /\ tr[i].after = "TYPE"}

\* what the j-th byte after the sync byte does, for a frame with length byte
\* len: its state before and after, and the data index it is stored at
\* (0: none)
FrameStep(j, len) ==
    IF j = 1 THEN [before |-> "TYPE", after |-> "LENGTH", index |-> 0]
    ELSE IF j = 2 THEN [before |-> "LENGTH", after |-> "SEQUENCE", index |-> 0]
    ELSE IF j = 3
    THEN [before |-> "SEQUENCE",
          after |-> IF len > 0 THEN "DATA" ELSE "CRC_HIGH", index |-> 0]
    ELSE IF j <= 3 + len
    THEN [before |-> "DATA",
          after |-> IF j < 3 + len THEN "DATA" ELSE "CRC_HIGH", index |-> j - 3]
    ELSE IF j = 4 + len THEN [before |-> "CRC_HIGH", after |-> "CRC_LOW", index |-> 0]
    ELSE IF j = 5 + len THEN [before |-> "CRC_LOW", after |-> "WAIT_SYNC", index |-> 0]
    ELSE [before |-> "WAIT_SYNC", after |-> "WAIT_SYNC", index |-> 0]

\* C24: after every sync byte taken, the bytes that follow (escape prefixes
\* not counted) move the machine through TYPE, LENGTH, SEQUENCE, DATA for
\* exactly as many bytes as the length byte says (none when it is 0),
\* CRC_HIGH, CRC_LOW and back to WAIT_SYNC; the i-th data byte is stored at
\* index i - 1 of rx_packet.data, inside the array, nothing else of the array
\* is written, and an escape prefix changes neither state nor array
C24_FrameWalk ==
    /\ \A s \in SyncEntries(rx_trace) :
          LET c == Consumed(rx_trace, s + 1)
              len == IF Len(c) >= 2 THEN c[2].value ELSE 0
          IN \A j \in 1 .. Len(c) :
                j <= 5 + len =>
                   LET f == FrameStep(j, len) IN
                   /\ c[j].before = f.before
                   /\ c[j].after = f.after
                   /\ IF f.index = 0 THEN c[j].wrote = {}
                      ELSE /\ f.index \in 1 .. COMM_MAX_PACKET_SIZE
                           /\ c[j].wrote \subseteq {f.index}
                           /\ c[j].count = f.index
                           /\ c[j].stored = c[j].value
    /\ \A i \in 1 .. Len(rx_trace) :
          rx_trace[i].prefix => /\ rx_trace[i].after = rx_trace[i].before
                                /\ rx_trace[i].wrote = {}

\* the frame of 255 data bytes was taken to its end: 255 bytes stored, the
\* last one at index 254, and the machine back in WAIT_SYNC
C24_Witness ==
    /\ h_in = <<>>
    /\ rx.rx_state = "WAIT_SYNC"
    /\ rx.rx_packet.length = COMM_MAX_PACKET_SIZE
    /\ rx.rx_data_count = COMM_MAX_PACKET_SIZE
    /\ rx.rx_packet.data = FsmLongData
    /\ \E i \in 1 .. Len(rx_trace) : rx_trace[i].wrote = {COMM_MAX_PACKET_SIZE}

\* C25: a byte received in WAIT_SYNC moves the machine to TYPE exactly when
\* it is 0xAA, whether or not an escape byte came before it; any other byte
\* leaves it in WAIT_SYNC; in both cases no field of rx_packet is written and
\* no ACK or NACK is sent
C25_WaitSync ==
    \A i \in 1 .. Len(rx_trace) :
        rx_trace[i].before = "WAIT_SYNC" =>
            /\ rx_trace[i].after =
                   (IF rx_trace[i].byte = COMM_SYNC_BYTE THEN "TYPE" ELSE "WAIT_SYNC")
            /\ rx_trace[i].wrote = {}
            /\ rx_trace[i].header_same
            /\ rx_trace[i].answers = 0

\* two escape bytes were ignored in WAIT_SYNC (the second one unescapes to
\* 0xAA), then a sync byte right after an escape byte started a frame
C25_Witness ==
    \E i \in 2 .. Len(rx_trace) - 1 :
        /\ rx_trace[i - 1].before = "WAIT_SYNC"
        /\ rx_trace[i - 1].byte = COMM_ESCAPE_BYTE
        /\ rx_trace[i].before = "WAIT_SYNC"
        /\ rx_trace[i].byte = COMM_ESCAPE_BYTE
        /\ rx_trace[i].value = COMM_SYNC_BYTE
        /\ rx_trace[i].after = "WAIT_SYNC"
        /\ \E k \in i + 1 .. Len(rx_trace) - 1 :
              /\ rx_trace[k].prefix
              /\ rx_trace[k + 1].byte = COMM_SYNC_BYTE
              /\ rx_trace[k + 1].after = "TYPE"

(***************************************************************************)
(* SpecSig: ISR(INT0_vect) on a sequence of readings of D+ and D-          *)
(***************************************************************************)

\* the line states the interrupt can read
SigJ == [dp |-> TRUE, dm |-> FALSE]
SigK == [dp |-> FALSE, dm |-> TRUE]
SigSE1 == [dp |-> TRUE, dm |-> TRUE]
SigSE0 == [dp |-> FALSE, dm |-> FALSE]

SigEvent(level, dt) == [dp |-> level.dp, dm |-> level.dm, dt |-> dt]

\* the n-th reading of a packet, one tick after the one before: eight
\* readings K, J, .. , K, J, which the interrupt takes for SYNC, then eight
\* for every byte, lowest bit first, a 1 as K or J in turn, a 0 as SE1
SigBit(bytes, n) ==
    IF n <= 8 THEN SigEvent(IF n % 2 = 1 THEN SigK ELSE SigJ, 1)
    ELSE LET byte == bytes[(n - 9) \div 8 + 1]
             bit == (byte \div (2 ^ ((n - 9) % 8))) % 2
         IN SigEvent(IF bit = 0 THEN SigSE1
                     ELSE IF n % 2 = 1 THEN SigK ELSE SigJ, 1)

\* SYNC and the bytes of a packet, then both lines low after eop ticks
SigPacket(bytes, eop) ==
    [n \in 1 .. 8 * (Len(bytes) + 1) |-> SigBit(bytes, n)]
        \o <<SigEvent(SigSE0, eop)>>

\* 66 bytes: two more than packet_data_buffer holds
SigLongBytes == [i \in 1 .. USB_MAX_PACKET_SIZE + 2 |-> 255]

\* the scripts: a packet of one byte; a packet of three bytes ended after 21
\* ticks and a packet of one byte ended after 251; a packet of two bytes with
\* both lines low after 20 ticks, again after 250 and again after 300; 66
\* bytes after both lines were low for a time that brings TCNT1 close to its
\* wrap; a SYNC cut short by both lines low after 21 and after 5 ticks; a
\* SYNC without bytes ended after 300 ticks
SigScripts ==
    {[events |-> SigPacket(<<173>>, 30), sent |-> <<<<173>>>>],
     [events |-> SigPacket(<<173, 255, 91>>, 21) \o SigPacket(<<255>>, 251),
      sent |-> <<<<173, 255, 91>>, <<255>>>>],
     [events |-> SigPacket(<<173, 255>>, 20)
                    \o <<SigEvent(SigSE0, 250), SigEvent(SigSE0, 300)>>,
      sent |-> <<<<173, 255>>>>],
     [events |-> <<SigEvent(SigSE0, 65500)>> \o SigPacket(SigLongBytes, 30),
      sent |-> <<SigLongBytes>>],
     [events |-> <<SigEvent(SigK, 1), SigEvent(SigJ, 1), SigEvent(SigK, 1),
                   SigEvent(SigSE0, 21), SigEvent(SigSE0, 5)>>,
      sent |-> <<>>],
     [events |-> SigPacket(<<>>, 300), sent |-> <<>>]}

\* TCNT1 counts d ticks; a wrap raises TIMER1_OVF
timer_counts(u, d) ==
    IF u.TCNT1 + d >= 65536
    THEN TIMER1_OVF_vect([u EXCEPT !.TCNT1 = U16(@ + d)])
    ELSE [u EXCEPT !.TCNT1 = @ + d]

\* monitoring was enabled on an idle bus
SigInit ==
    /\ TxIdleInit
    /\ prog = [prog_init EXCEPT !.current_state = STATE_MONITORING]
    /\ usb = usb_monitor_enable(usb_statics, default_config_init)
    /\ handled = <<>>
    /\ cmd_n = 0
    /\ \E s \in SigScripts : sig_events = s.events /\ sig_sent = s.sent
    /\ sig_log = <<>>

\* the bytes a call appended to the ring buffer
Pushed(before, after) ==
    SubSeq(Unread(after), ringbuffer_count(before) + 1, ringbuffer_count(after))

\* the next reading: the ticks pass, then ISR(INT0_vect) runs and reads the
\* lines; stray is what a read past the end of packet_data_buffer finds; a
\* run that reads both lines low is logged with the time_diff of line 603
SigRun ==
    /\ sig_events # <<>>
    /\ LET e == Head(sig_events)
           u0 == timer_counts(usb, e.dt)
       IN \E stray \in {0, 255} :
          \E r \in {INT0_vect(u0, TxState(0), e.dp, e.dm, stray)} :
             /\ usb' = r.u
             /\ TxAssign(r.t)
             /\ sig_log' =
                   IF e.dp \/ e.dm THEN sig_log
                   ELSE Append(sig_log,
                          [time_diff |->
                               timestamp_diff(usb_get_timestamp(u0),
                                              usb.last_edge_time),
                           packet_in_progress |-> usb.packet_in_progress,
                           bus_reset_detected |-> usb.bus_reset_detected,
                           packet_data_length |-> usb.packet_data_length,
                           sync_detected |-> usb.sync_detected,
                           bit_count |-> usb.bit_count,
                           pushed |-> Pushed(usb.usb_packet_buffer,
                                             r.u.usb_packet_buffer),
                           packet_in_progress_after |-> r.u.packet_in_progress,
                           sync_detected_after |-> r.u.sync_detected,
                           bit_count_after |-> r.u.bit_count,
                           bus_reset_detected_after |-> r.u.bus_reset_detected,
                           sent |-> SubSeq(r.t.sends, Len(sends) + 1, Len(r.t.sends))])
    /\ sig_events' = Tail(sig_events)
    /\ UNCHANGED sig_sent
    /\ UNCHANGED <<uart_rx_buffer, rx, m, h_in, h_n, m_n>>
    /\ UNCHANGED <<prog, handled, cmd_n>>

SigEdge == SigRun /\ UNCHANGED edgeOthers

SigNext == SigEdge

SigSpecInit == SigInit /\ RbIdle /\ SpIdle /\ EscIdle /\ CrcIdle /\ LoopIdle /\ DecIdle /\ TrkIdle /\ BusIdle /\ WdtIdle /\ PollIdle /\ FsmIdle /\ EnIdle /\ TimeIdle /\ CapIdle

SpecSig == SigSpecInit /\ [][SigNext]_vars

HasPushed(e) == e.pushed # <<>>

\* the entries of the runs that pushed to the packet ring buffer
Flushes == SelectSeq(sig_log, HasPushed)

\* C21: the k-th flush pushes the PID of the k-th packet, the number of the
\* bytes that followed the PID, and exactly those bytes in order
C21_FlushedEntry ==
    \A k \in 1 .. Len(Flushes) :
        /\ k <= Len(sig_sent)
        /\ Flushes[k].pushed
               = <<sig_sent[k][1], Len(sig_sent[k]) - 1>> \o Tail(sig_sent[k])

\* C29: packet_data_length never exceeds USB_MAX_PACKET_SIZE, and no flush
\* pushes a length byte above it or more bytes than packet_data_buffer holds
C29_LengthBounded ==
    /\ usb.packet_data_length <= USB_MAX_PACKET_SIZE
    /\ \A k \in 1 .. Len(Flushes) :
          /\ Flushes[k].pushed[2] <= USB_MAX_PACKET_SIZE
          /\ Len(Flushes[k].pushed) - 2 <= USB_MAX_PACKET_SIZE

\* a difference of timestamps, held as two halves, is more than n ticks
DiffAbove(diff, n) == diff.hi > 0 \/ diff.lo > n

\* the flush of an entry of sig_log: the PID, packet_data_length and as many
\* bytes were pushed
Flushed(e) ==
    /\ Len(e.pushed) = e.packet_data_length + 2
    /\ e.pushed[2] = e.packet_data_length

\* C28: a run of the interrupt that reads both lines low with time_diff
\* above 20 flushes the packet in progress, if there is one with bytes, and
\* clears packet_in_progress, sync_detected and bit_count whether or not a
\* packet was in progress; above 250 it also sets bus_reset_detected and
\* sends one state-change frame with code 2; with time_diff at most 20 it
\* pushes nothing, sends nothing and leaves bus_reset_detected alone
C28_EndOfPacket ==
    \A i \in 1 .. Len(sig_log) :
        LET e == sig_log[i] IN
        IF DiffAbove(e.time_diff, 20)
        THEN /\ ~e.packet_in_progress_after
             /\ ~e.sync_detected_after
             /\ e.bit_count_after = 0
             /\ IF e.packet_in_progress /\ e.packet_data_length > 0
                THEN Flushed(e) ELSE e.pushed = <<>>
             /\ IF DiffAbove(e.time_diff, 250)
                THEN /\ e.bus_reset_detected_after
                     /\ Len(e.sent) = 1
                     /\ ResetFrames(e.sent) = 1
                ELSE /\ e.sent = <<>>
                     /\ e.bus_reset_detected_after = e.bus_reset_detected
        ELSE /\ e.pushed = <<>>
             /\ e.sent = <<>>
             /\ e.packet_in_progress_after = e.packet_in_progress
             /\ e.bus_reset_detected_after = e.bus_reset_detected

\* a packet in progress was left alone by both lines low after exactly 20
\* ticks, flushed without a bus reset after exactly 250 more, and a bus
\* reset was signalled 300 ticks later with no packet in progress
C28_Witness ==
    \E i \in 1 .. Len(sig_log) - 2 :
        /\ sig_log[i].time_diff = [hi |-> 0, lo |-> 20]
        /\ sig_log[i].packet_in_progress
        /\ sig_log[i].packet_in_progress_after
        /\ sig_log[i + 1].time_diff = [hi |-> 0, lo |-> 250]
        /\ sig_log[i + 1].pushed # <<>>
        /\ sig_log[i + 1].sent = <<>>
        /\ sig_log[i + 2].time_diff = [hi |-> 0, lo |-> 300]
        /\ ~sig_log[i + 2].packet_in_progress
        /\ Len(sig_log[i + 2].sent) = 1

(***************************************************************************)
(* SpecEnable: usb_monitor_enable statement by statement, with the         *)
(* line-edge interrupt running whenever the I flag of SREG allows it       *)
(***************************************************************************)

MaxEnableCalls == 1

\* the positions of a call name the statement that runs next: "sreg", "cli",
\* "memcpy", "memcpy_rest" (memcpy copies the structure in two steps),
\* "usb_reset_timestamp", "usb_packet_buffer", "usb_event_buffer",
\* "tracking", "monitoring_enabled", "restore"; at "idle" no call is under
\* way.  The write to EICRA (lines 219 .. 227) changes nothing that is
\* modelled and has no position of its own.

\* the positions where a part of the changes has been made and not all: after
\* the first step of memcpy and before monitoring_enabled = true has run
EnablePartial ==
    {"memcpy_rest", "usb_reset_timestamp", "usb_packet_buffer",
     "usb_event_buffer", "tracking", "monitoring_enabled"}

cli_missing(e) == e

\* cli()
cli(e) == [e EXCEPT !.I = FALSE]

\* the statement of usb_monitor_enable at position e.pc: the statics and the
\* call afterwards.  SREG = sreg and the return are one step: the
\* instruction after a write that sets the I flag runs before any interrupt
usb_monitor_enable_step(u, e) ==
    LET next(pc) == [e EXCEPT !.pc = pc] IN
    CASE e.pc = "sreg" -> [u |-> u, e |-> [next("cli") EXCEPT !.sreg = e.I]]
      [] e.pc = "cli" ->
            [u |-> u, e |-> [cli(next("memcpy")) EXCEPT !.at_cli = u]]
      [] e.pc = "memcpy" ->
            [u |-> [u EXCEPT !.monitor_config =
                       [@ EXCEPT !.speed = e.config.speed,
                                 !.capture_control = e.config.capture_control,
                                 !.capture_bulk = e.config.capture_bulk,
                                 !.capture_interrupt = e.config.capture_interrupt,
                                 !.capture_isoc = e.config.capture_isoc]],
             e |-> next("memcpy_rest")]
      [] e.pc = "memcpy_rest" ->
            [u |-> [u EXCEPT !.monitor_config = e.config],
             e |-> next("usb_reset_timestamp")]
      [] e.pc = "usb_reset_timestamp" ->
            [u |-> usb_reset_timestamp(u), e |-> next("usb_packet_buffer")]
      [] e.pc = "usb_packet_buffer" ->
            [u |-> [u EXCEPT !.usb_packet_buffer = ringbuffer_reset(@)],
             e |-> next("usb_event_buffer")]
      [] e.pc = "usb_event_buffer" ->
            [u |-> [u EXCEPT !.usb_event_buffer = ringbuffer_reset(@)],
             e |-> next("tracking")]
      [] e.pc = "tracking" ->
            [u |-> [u EXCEPT !.last_token_pid = 0, !.last_token_addr = 0,
                             !.last_token_endp = 0,
                             !.last_token_time = timestamp_zero,
                             !.transaction_in_progress = FALSE,
                             !.current_transaction = TRANS_NONE],
             e |-> next("monitoring_enabled")]
      [] e.pc = "monitoring_enabled" ->
            [u |-> [u EXCEPT !.monitoring_enabled = TRUE], e |-> next("restore")]
      [] e.pc = "restore" ->
            [u |-> u,
             e |-> [next("idle") EXCEPT !.I = e.sreg,
                                        !.returned = Append(@,
                                            [u |-> u, I |-> e.sreg,
                                             entry_I |-> e.entry_I,
                                             at_cli |-> e.at_cli,
                                             config |-> e.config])]]

\* the configurations handed to the call: default_config of main.c and one
\* with every capture switched off and both filters set
EnableConfigs ==
    {default_config_init,
     [speed |-> USB_SPEED_LOW, capture_control |-> FALSE, capture_bulk |-> FALSE,
      capture_interrupt |-> FALSE, capture_isoc |-> FALSE, addr_filter |-> 5,
      ep_filter |-> 2, filter_in |-> TRUE, filter_out |-> TRUE]}

\* the readings of the lines: a packet of one byte and a packet of two
EnableEvents == SigPacket(<<173>>, 30) \o SigPacket(<<45, 255>>, 30)

\* monitoring is on, a SETUP token was tracked, and the main loop runs with
\* interrupts enabled (sei() on line 244 of main.c comes before it)
EnableInit ==
    /\ TxIdleInit
    /\ prog = [prog_init EXCEPT !.current_state = STATE_MONITORING]
    /\ \E garbage \in DecGarbage :
          usb = process_raw_packet(
                    usb_monitor_enable(usb_statics, default_config_init),
                    TxState(0), <<USB_PID_SETUP, 1, 5>>, 3, garbage).u
    /\ handled = <<>>
    /\ cmd_n = 0
    /\ sig_events = EnableEvents
    /\ sig_sent = <<<<173>>, <<45, 255>>>>
    /\ sig_log = <<>>
    /\ en = [pc |-> "idle", I |-> TRUE, sreg |-> FALSE, entry_I |-> TRUE,
             config |-> default_config_init, at_cli |-> usb_statics,
             calls |-> 0, ran_at |-> {}, returned |-> <<>>]

\* handle_command_packet calls usb_monitor_enable (main.c, lines 123, 126
\* and 147)
EnableCall ==
    /\ en.pc = "idle"
    /\ en.calls < MaxEnableCalls
    /\ \E config \in EnableConfigs :
          en' = [en EXCEPT !.pc = "sreg", !.config = config, !.entry_I = en.I,
                           !.calls = @ + 1]
    /\ UNCHANGED <<commVars, progVars, sigVars>>
    /\ UNCHANGED enOthers

\* the next statement of the call
EnableStep ==
    /\ en.pc # "idle"
    /\ \E r \in {usb_monitor_enable_step(usb, en)} :
          /\ usb' = r.u
          /\ en' = r.e
    /\ UNCHANGED commVars
    /\ UNCHANGED <<prog, handled, cmd_n>>
    /\ UNCHANGED sigVars
    /\ UNCHANGED enOthers

\* the lines change and the I flag is set: ISR(INT0_vect) runs; with the flag
\* clear the interrupt stays pending
EnableEdge ==
    /\ en.I
    /\ SigRun
    /\ en' = [en EXCEPT !.ran_at = @ \cup {en.pc}]
    /\ UNCHANGED enOthers

EnableNext == EnableCall \/ EnableStep \/ EnableEdge

EnableSpecInit == EnableInit /\ RbIdle /\ SpIdle /\ EscIdle /\ CrcIdle /\ LoopIdle /\ DecIdle /\ TrkIdle /\ BusIdle /\ WdtIdle /\ PollIdle /\ FsmIdle /\ TimeIdle /\ CapIdle

SpecEnable == EnableSpecInit /\ [][EnableNext]_vars

\* C30: ISR(INT0_vect) never runs at a position of usb_monitor_enable where
\* a part of its changes has been made; at every return the statics are
\* those one undivided usb_monitor_enable makes of the statics at cli(), the
\* packet ring buffer is empty, no transaction is tracked, monitoring is
\* enabled, and the I flag is what it was on entry
C30_EnableAtomic ==
    /\ en.ran_at \cap EnablePartial = {}
    /\ \A k \in 1 .. Len(en.returned) :
          LET r == en.returned[k] IN
          /\ r.u = usb_monitor_enable(r.at_cli, r.config)
          /\ ringbuffer_count(r.u.usb_packet_buffer) = 0
          /\ r.u.current_transaction = TRANS_NONE
          /\ ~r.u.transaction_in_progress
          /\ r.u.monitoring_enabled
          /\ r.I = r.entry_I

\* a call returned that found a packet in the ring buffer and a transaction
\* under way and was handed a configuration other than the one in force;
\* the interrupt ran between the read of SREG and cli(), and a reading of
\* the lines was waiting when the call returned
C30_Witness ==
    /\ "cli" \in en.ran_at
    /\ sig_events # <<>>
    /\ \E k \in 1 .. Len(en.returned) :
          LET r == en.returned[k] IN
          /\ ringbuffer_count(r.at_cli.usb_packet_buffer) > 0
          /\ r.at_cli.transaction_in_progress
          /\ r.at_cli.monitor_config # r.config
          /\ r.entry_I

(***************************************************************************)
(* SpecTime: usb_get_timestamp read from the main loop and from            *)
(* ISR(INT0_vect) while timer 1 counts and overflows                       *)
(***************************************************************************)

MaxTimerTicks == 4
MaxTimeReads == 3

\* TCNT1 when the run starts: two ticks before its wrap
TimerStart == 65534

\* monitoring is on and the main loop runs with interrupts enabled
TimeInit ==
    /\ TxIdleInit
    /\ prog = [prog_init EXCEPT !.current_state = STATE_MONITORING]
    /\ usb = [usb_monitor_enable(usb_statics, default_config_init)
                 EXCEPT !.TCNT1 = TimerStart]
    /\ handled = <<>>
    /\ cmd_n = 0
    /\ tm = [I |-> TRUE, TOV1 |-> FALSE, pc |-> "main", sreg |-> TRUE,
             time |-> 0, reads |-> <<>>, ticks |-> 0]

\* timer 1 counts one tick; a wrap sets its overflow flag, which keeps
\* ISR(TIMER1_OVF_vect) pending until it can run
TimerTick ==
    /\ tm.ticks < MaxTimerTicks
    /\ usb' = [usb EXCEPT !.TCNT1 = U16(@ + 1)]
    /\ tm' = [tm EXCEPT !.ticks = @ + 1,
                        !.TOV1 = @ \/ usb.TCNT1 + 1 = 65536]
    /\ UNCHANGED <<prog, handled, cmd_n>>
    /\ UNCHANGED timeOthers

\* ISR(TIMER1_OVF_vect) runs: the I flag is set and the overflow is pending
TimerOverflow ==
    /\ tm.I
    /\ tm.TOV1
    /\ usb' = TIMER1_OVF_vect(usb)
    /\ tm' = [tm EXCEPT !.TOV1 = FALSE]
    /\ UNCHANGED <<prog, handled, cmd_n>>
    /\ UNCHANGED timeOthers

\* usb_get_timestamp called from the main loop enters its ATOMIC_BLOCK; with
\* the I flag set a pending overflow interrupt runs first
TimeEnter ==
    /\ tm.pc = "main"
    /\ ~tm.TOV1
    /\ Len(tm.reads) < MaxTimeReads
    /\ tm' = [tm EXCEPT !.pc = "time", !.sreg = tm.I, !.I = FALSE]
    /\ UNCHANGED progVars
    /\ UNCHANGED timeOthers

\* line 550: time = timestamp_counter
TimeReadCounter ==
    /\ tm.pc \in {"time", "isr"}
    /\ tm' = [tm EXCEPT !.time = usb.timestamp_counter,
                        !.pc = IF tm.pc = "time" THEN "timer_count"
                               ELSE "isr_timer_count"]
    /\ UNCHANGED progVars
    /\ UNCHANGED timeOthers

\* lines 551 .. 555: timer_count = TCNT1, the I flag is restored and the value
\* is returned; ISR(INT0_vect) then returns and sets the I flag
TimeReadTimer ==
    /\ tm.pc \in {"timer_count", "isr_timer_count"}
    /\ tm' = [tm EXCEPT
                !.reads = Append(@, usb_get_timestamp(
                              [usb EXCEPT !.timestamp_counter = tm.time])),
                !.I = IF tm.pc = "timer_count" THEN tm.sreg ELSE TRUE,
                !.pc = "main"]
    /\ UNCHANGED progVars
    /\ UNCHANGED timeOthers

\* a line edge: ISR(INT0_vect) starts, which clears the I flag, and calls
\* usb_get_timestamp on line 591
TimeIsrEnter ==
    /\ tm.pc = "main"
    /\ tm.I
    /\ ~tm.TOV1
    /\ Len(tm.reads) < MaxTimeReads
    /\ tm' = [tm EXCEPT !.pc = "isr", !.I = FALSE]
    /\ UNCHANGED progVars
    /\ UNCHANGED timeOthers

TimeNext ==
    \/ TimerTick
    \/ TimerOverflow
    \/ TimeEnter
    \/ TimeReadCounter
    \/ TimeReadTimer
    \/ TimeIsrEnter

TimeSpecInit == TimeInit /\ RbIdle /\ SpIdle /\ EscIdle /\ CrcIdle /\ LoopIdle /\ DecIdle /\ TrkIdle /\ BusIdle /\ WdtIdle /\ PollIdle /\ FsmIdle /\ SigIdle /\ EnIdle /\ CapIdle

SpecTime == TimeSpecInit /\ [][TimeNext]_vars

\* a timestamp is not below another
NotBelow(a, b) == a.hi > b.hi \/ (a.hi = b.hi /\ a.lo >= b.lo)

\* C32: a later read of usb_get_timestamp never returns less than an earlier
\* one
C32_Monotonic ==
    \A i \in 1 .. Len(tm.reads) : \A j \in i .. Len(tm.reads) :
        NotBelow(tm.reads[j], tm.reads[i])


(***************************************************************************)
(* SpecCapture: packets pass on the bus while the firmware monitors; the   *)
(* line-edge interrupt queues them and the main loop takes them out with   *)
(* process_usb_packets                                                     *)
(***************************************************************************)

MaxIterations == 2

\* the n-th reading of the bytes of a packet whose readings are one tick
\* apart: before every bit both lines are read low, then a 1 is read as J and
\* a 0 as SE1
CapBit(bytes, n) ==
    LET k == (n - 1) \div 2
        byte == bytes[k \div 8 + 1]
        bit == (byte \div (2 ^ (k % 8))) % 2
    IN IF n % 2 = 1 THEN SigEvent(SigSE0, 1)
       ELSE SigEvent(IF bit = 1 THEN SigJ ELSE SigSE1, 1)

\* SYNC and the bytes of a packet, then both lines low after eop ticks
CapPacket(bytes, eop) ==
    [n \in 1 .. 8 |-> SigEvent(IF n % 2 = 1 THEN SigK ELSE SigJ, 1)]
        \o [n \in 1 .. 16 * Len(bytes) |-> CapBit(bytes, n)]
        \o <<SigEvent(SigSE0, eop)>>

\* the traffic: an ACK; a SETUP token and its DATA0 with an empty payload; an
\* empty DATA0 and a DATA1 whose eleven payload bytes all equal the NAK PID
CapScripts ==
    {CapPacket(<<USB_PID_ACK>>, 21),
     CapPacket(bus_token(USB_PID_SETUP, 1, 0), 21)
        \o CapPacket(data_raw(USB_PID_DATA0, <<>>), 21),
     CapPacket(data_raw(USB_PID_DATA0, <<>>), 21)
        \o CapPacket(data_raw(USB_PID_DATA1, [i \in 1 .. 11 |-> USB_PID_NAK]), 21)}

\* nothing was captured yet
cap_call_none ==
    [ret |-> FALSE, before |-> <<>>, after |-> <<>>, raw |-> <<>>,
     called |-> FALSE, aligned |-> FALSE, entry |-> <<>>, frames |-> <<>>,
     decoded |-> usb_packet_t]

CapInit ==
    /\ TxIdleInit
    /\ prog = [prog_init EXCEPT !.current_state = STATE_MONITORING]
    /\ usb = usb_monitor_enable(usb_statics, default_config_init)
    /\ handled = <<>>
    /\ cmd_n = 0
    /\ sig_events \in CapScripts
    /\ sig_sent = <<>>
    /\ sig_log = <<>>
    /\ cap = [pc |-> "main", packets_processed |-> 0, packet |-> usb_packet_t,
              iterations |-> 0, line |-> SigJ, entries |-> <<>>, aligned |-> TRUE,
              last |-> cap_call_none, stopped |-> "", finished |-> 0]

\* the next reading: the ticks pass, then ISR(INT0_vect) runs and reads the
\* lines; what it pushes is one more entry of the packet ring buffer
CapReading ==
    /\ sig_events # <<>>
    /\ LET e == Head(sig_events) IN
       \E r \in {INT0_vect(timer_counts(usb, e.dt), TxState(255), e.dp, e.dm, 0)} :
          LET entry == Pushed(usb.usb_packet_buffer, r.u.usb_packet_buffer) IN
          /\ usb' = r.u
          /\ TxAssign(r.t)
          /\ cap' = [cap EXCEPT !.line = [dp |-> e.dp, dm |-> e.dm],
                                !.entries = IF entry = <<>> THEN @
                                            ELSE Append(@, entry)]
    /\ sig_events' = Tail(sig_events)
    /\ UNCHANGED <<uart_rx_buffer, rx, m, h_in, h_n, m_n, prog, handled, cmd_n,
                   sig_sent, sig_log>>
    /\ UNCHANGED capOthers

\* main.c lines 264-281: the head of a pass of the main loop, with power on
\* the bus and no reset flagged; packet is what the local of
\* process_usb_packets holds when the function is entered
CapIterate ==
    /\ cap.pc = "main"
    /\ cap.iterations < MaxIterations
    /\ \E r \in {usb_detect_bus_state(usb, TxState(255), TRUE, cap.line.dp, cap.line.dm)} :
          /\ usb' = r.u
          /\ TxAssign(r.t)
    /\ \E garbage \in DecGarbage :
          cap' = [cap EXCEPT !.pc = IF prog.current_state = STATE_MONITORING
                                    THEN "while" ELSE "rest",
                             !.packets_processed = 0,
                             !.packet = garbage,
                             !.stopped = "",
                             !.iterations = @ + 1]
    /\ UNCHANGED <<uart_rx_buffer, rx, m, h_in, h_n, m_n, prog, handled, cmd_n>>
    /\ UNCHANGED sigVars
    /\ UNCHANGED capOthers

RECURSIVE CapConcat(_)
CapConcat(entries) ==
    IF entries = <<>> THEN <<>> ELSE Head(entries) \o CapConcat(Tail(entries))

\* the frames of type USB_PACKET among those sent after the first n
CapFrames(t, n) ==
    SelectSeq(SubSeq(t.sends, n + 1, Len(t.sends)),
              LAMBDA s : s.type = PACKET_TYPE_USB_PACKET)

\* main.c lines 95-101: the loop condition of process_usb_packets is
\* evaluated and, if it holds, the loop body runs
CapLoop ==
    /\ cap.pc = "while"
    /\ IF ~process_usb_packets_limit(cap.packets_processed)
       THEN /\ cap' = [cap EXCEPT !.pc = "rest", !.stopped = "limit"]
            /\ UNCHANGED <<commVars, usb>>
       ELSE \E garbage \in DecGarbage :
            \E c \in {usb_capture_packet(usb, TxState(255), cap.packet, garbage)} :
            \E t \in {IF c.ret THEN usb_process_packet(c.u, c.t, c.packet) ELSE c.t} :
               LET before == Unread(usb.usb_packet_buffer)
                   after == Unread(c.u.usb_packet_buffer)
                   aligned == cap.aligned /\ cap.entries # <<>>
                   exact == /\ aligned
                            /\ after = CapConcat(Tail(cap.entries))
               IN
               /\ usb' = c.u
               /\ TxAssign(t)
               /\ UNCHANGED <<uart_rx_buffer, rx, m, h_in, h_n, m_n>>
               /\ cap' = [cap EXCEPT
                     !.pc = IF c.ret THEN "while" ELSE "rest",
                     !.stopped = IF c.ret THEN "" ELSE "false",
                     !.packets_processed = IF c.ret THEN U8(@ + 1) ELSE @,
                     !.packet = c.packet,
                     !.aligned = exact \/ (cap.aligned /\ before = <<>>),
                     !.entries = IF exact THEN Tail(@) ELSE IF before = <<>> THEN @ ELSE <<>>,
                     !.last = [ret |-> c.ret, before |-> before, after |-> after,
                               raw |-> c.raw, called |-> c.called,
                               aligned |-> aligned,
                               entry |-> IF aligned THEN Head(cap.entries) ELSE <<>>,
                               frames |-> CapFrames(t, Len(sends)),
                               decoded |-> c.decoded]]
    /\ UNCHANGED <<prog, handled, cmd_n>>
    /\ UNCHANGED sigVars
    /\ UNCHANGED capOthers

\* main.c lines 283-310: no command has arrived and the status report is not
\* due
CapRest ==
    /\ cap.pc = "rest"
    /\ cap' = [cap EXCEPT !.pc = "main", !.finished = @ + 1]
    /\ UNCHANGED <<commVars, progVars>>
    /\ UNCHANGED sigVars
    /\ UNCHANGED capOthers

CapNext == CapReading \/ CapIterate \/ CapLoop \/ CapRest

CapSpecInit == CapInit /\ RbIdle /\ SpIdle /\ EscIdle /\ CrcIdle /\ LoopIdle /\ DecIdle /\ TrkIdle /\ BusIdle /\ WdtIdle /\ PollIdle /\ FsmIdle /\ EnIdle /\ TimeIdle

SpecCapture == CapSpecInit /\ [][CapNext]_vars


\* C31: process_usb_packets handles at most 10 packets in one pass of the
\* main loop, whatever is queued and whenever the interrupt queues more: the
\* loop is left for the rest of the pass either at the limit of 10 or when
\* usb_capture_packet returned false, and it goes on only after a call that
\* returned true
C31_BatchLimit ==
    /\ cap.packets_processed <= 10
    /\ (cap.pc = "while" /\ cap.packets_processed > 0) => cap.last.ret
    /\ (cap.pc = "rest" /\ cap.stopped = "limit") => cap.packets_processed = 10
    /\ (cap.pc = "rest" /\ cap.stopped = "false") =>
          (~cap.last.ret /\ cap.packets_processed < 10)

\* the loop was left at the limit while the next call of usb_capture_packet
\* would have returned true
C31_Witness ==
    /\ cap.pc = "rest"
    /\ cap.stopped = "limit"
    /\ cap.packets_processed = 10
    /\ usb_capture_packet(usb, TxState(255), cap.packet, usb_packet_t).ret

\* C37: a call of usb_capture_packet that starts at the first byte of an
\* entry the interrupt flushed removes exactly the bytes of that entry, so
\* that the next call starts at the next entry, and hands the PID and the
\* bytes of that packet to process_raw_packet
C37_EntryBoundaries ==
    cap.last.aligned =>
        /\ cap.last.before = cap.last.entry \o cap.last.after
        /\ cap.last.called
        /\ cap.last.raw = <<cap.last.entry[1]>>
                             \o SubSeq(cap.last.entry, 3, Len(cap.last.entry) - 1)

\* C38: a call of usb_capture_packet that returned true, and the call of
\* usb_process_packet that follows it in process_usb_packets, send at most
\* one frame of type USB_PACKET, and it carries the pid, dev_addr, endpoint,
\* crc_valid and payload that were decoded
C38_OneFramePerPacket ==
    cap.last.ret =>
        /\ Len(cap.last.frames) <= 1
        /\ \A i \in DOMAIN cap.last.frames :
              SubSeq(cap.last.frames[i].data, 5, Len(cap.last.frames[i].data))
                 = <<cap.last.decoded.pid, cap.last.decoded.dev_addr,
                     cap.last.decoded.endpoint,
                     IF cap.last.decoded.crc_valid THEN 128 ELSE 0>>
                   \o (IF cap.last.decoded.data_len > 0
                       THEN cap.last.decoded.data ELSE <<>>)


(***************************************************************************)
(* SpecStop: the host stops and restarts the capture while packets pass on *)
(* the bus and the main loop runs                                          *)
(***************************************************************************)

MaxStopCommands == 2

\* two NAK, a 1 read as K or J in turn and a 0 as SE1; after the second one
\* both lines stay low for longer than the reset threshold
StopScript == SigPacket(<<USB_PID_NAK>>, 21) \o SigPacket(<<USB_PID_NAK>>, 300)

\* the readings taken before the first pass of the main loop: all but the
\* last two bits and the end of the second packet
StopTaken == SubSeq(StopScript, 1, Len(StopScript) - 3)

\* the statics of usb_interface.c after ISR(INT0_vect) has taken the readings
\* events
RECURSIVE StopQueued(_, _)
StopQueued(u, events) ==
    IF events = <<>> THEN u
    ELSE LET e == Head(events) IN
         CHOOSE r \in {StopQueued(v, Tail(events)) :
                         v \in {INT0_vect(timer_counts(u, e.dt), TxState(255),
                                          e.dp, e.dm, 0).u}} : TRUE

\* the packets comm_receive_packet hands to the main loop
StopCommands ==
    {CmdPacket(PACKET_TYPE_CMD_RESET, <<>>),
     CmdPacket(PACKET_TYPE_CMD_START_CAPTURE, <<>>),
     CmdPacket(PACKET_TYPE_CMD_STOP_CAPTURE, <<>>),
     CmdPacket(PACKET_TYPE_CMD_SET_FILTER, CmdConfigBytes)}

StopInit ==
    /\ TxIdleInit
    /\ prog = [prog_init EXCEPT !.current_state = STATE_MONITORING]
    /\ usb = StopQueued(usb_monitor_enable(usb_statics, default_config_init),
                        StopTaken)
    /\ handled = <<>>
    /\ cmd_n = 0
    /\ sig_events = SubSeq(StopScript, Len(StopTaken) + 1, Len(StopScript))
    /\ sig_sent = <<>>
    /\ sig_log = <<>>
    /\ cap = [pc |-> "main", packets_processed |-> 0, packet |-> usb_packet_t,
              iterations |-> 0,
              line |-> [dp |-> StopTaken[Len(StopTaken)].dp,
                        dm |-> StopTaken[Len(StopTaken)].dm],
              entries |-> <<Unread(usb.usb_packet_buffer)>>, aligned |-> TRUE,
              last |-> cap_call_none, stopped |-> "", finished |-> 0]

\* main.c lines 283-310 when comm_receive_packet returns a command
StopCommand ==
    /\ cap.pc = "rest"
    /\ cmd_n < MaxStopCommands
    /\ \E packet \in StopCommands :
       \E r \in {handle_command_packet(prog, usb, TxState(255), packet)} :
          /\ prog' = r.p
          /\ usb' = r.u
          /\ TxAssign(r.t)
          /\ handled' = Append(handled, packet)
    /\ cmd_n' = cmd_n + 1
    /\ cap' = [cap EXCEPT !.pc = "main", !.finished = @ + 1]
    /\ UNCHANGED <<uart_rx_buffer, rx, m, h_in, h_n, m_n>>
    /\ UNCHANGED sigVars
    /\ UNCHANGED capOthers

StopNext == CapReading \/ CapIterate \/ CapLoop \/ CapRest \/ StopCommand

StopSpecInit == StopInit /\ RbIdle /\ SpIdle /\ EscIdle /\ CrcIdle /\ LoopIdle /\ DecIdle /\ TrkIdle /\ BusIdle /\ WdtIdle /\ PollIdle /\ FsmIdle /\ EnIdle /\ TimeIdle

SpecStop == StopSpecInit /\ [][StopNext]_vars

\* whether, after the commands h were handled, the last call of
\* usb_monitor_disable has returned and usb_monitor_enable was not called
\* since: RESET and STOP_CAPTURE call usb_monitor_disable, START_CAPTURE
\* calls usb_monitor_enable, SET_FILTER calls it while the capture runs
StopWindow(h) ==
    \E i \in DOMAIN h :
       /\ h[i].type \in {PACKET_TYPE_CMD_RESET, PACKET_TYPE_CMD_STOP_CAPTURE}
       /\ \A j \in i + 1 .. Len(h) : h[j].type # PACKET_TYPE_CMD_START_CAPTURE

\* C40: from the return of usb_monitor_disable until the next
\* usb_monitor_enable no step pushes into the packet ring buffer or sends a
\* frame of type USB_PACKET, and a run of the line-edge interrupt sends no
\* frame at all
C40_DisabledIsSilent ==
    [][(StopWindow(handled) /\ StopWindow(handled')) =>
          /\ Pushed(usb.usb_packet_buffer, usb'.usb_packet_buffer) = <<>>
          /\ usb'.usb_packet_buffer.write_index = usb.usb_packet_buffer.write_index
          /\ \A i \in DOMAIN sends' :
                i > Len(sends) => sends'[i].type # PACKET_TYPE_USB_PACKET
          /\ (sig_events' # sig_events => sends' = sends)]_vars

\* the capture was stopped in the middle of a packet, every reading of the
\* script was taken, bytes are still queued, and the main loop has begun a
\* pass that skips process_usb_packets
C40_Witness ==
    /\ StopWindow(handled)
    /\ sig_events = <<>>
    /\ usb.packet_in_progress
    /\ ringbuffer_count(usb.usb_packet_buffer) > 0
    /\ cap.pc = "rest"
    /\ cap.stopped = ""

=============================================================================
